---- MODULE Spec2Model ----
(***************************************************************************)
(* Daily Market Analysis System: data acquisition (data_fetcher.py), the   *)
(* orchestrator (market_analysis.py) and the scoring engine                *)
(* (scoring_system.py).                                                    *)
(*                                                                         *)
(* Three specifications share this module:                                 *)
(*   Spec       download_universe_data, one step per HTTP attempt          *)
(*   SpecRun    run_full_analysis, one step per pipeline stage             *)
(*   SpecScore  score_universe / score_instrument for one instrument       *)
(*   SpecRank   generate_rankings                                          *)
(*   SpecRegime detect_market_regime                                       *)
(*   SpecJson   generate_json_report                                       *)
(* Variables that a specification does not use keep their initial value.   *)
(***************************************************************************)
EXTENDS Integers, Sequences, FiniteSets, TLC

(***************************************************************************)
(* Bounds of the model                                                     *)
(***************************************************************************)
\* largest universe explored (number of configured tickers)
MaxUniverse == 3
\* largest configured CONFIG['MAX_RETRIES'] explored
MaxRetriesCfg == 3
\* largest configured CONFIG['BATCH_SIZE'] explored
MaxBatchCfg == 2
\* longest provider payload (rows) explored
MaxRows == 3
\* symbols of the universe one analysis run covers
RunUniverse == 4

(***************************************************************************)
(* Values                                                                  *)
(***************************************************************************)
\* numpy NaN / a missing cell: no ordering comparison with it is true
NaN == 0 - 999999

\* Python None and a returned object
None == [some |-> FALSE]

Some(x) == [some |-> TRUE, val |-> x]

VIX == "^VIX"

SPY == "SPY"

\* tickers other than the volatility index, in configured order
Pool == <<"SPY", "QQQ", "XLK", "GLD", "TLT">>

\* config.UNIVERSE keys in declared order: n tickers, the volatility index at
\* position vixPos (0: not configured)
MkUniverse(n, vixPos) == [k \in 1..n |-> IF k = vixPos THEN VIX ELSE Pool[k]]

\* CONFIG['MIN_REQUIRED_ROWS'], scaled to the payload sizes explored
MIN_REQUIRED_ROWS == 2

(***************************************************************************)
(* Data frames: a sequence of rows                                         *)
(***************************************************************************)
Row(d, o, h, l, c, a) ==
    [Date |-> d, Open |-> o, High |-> h, Low |-> l, Close |-> c, AdjClose |-> a,
     Volume |-> 1000]

\* the bar r with the traded volume v
WithVolume(r, v) == [r EXCEPT !.Volume = v]

\* a well-formed bar priced around px
OkRow(d, px) == Row(d, px, px + 1, px - 1, px, px)

RECURSIVE InsertByDate(_, _)
InsertByDate(row, df) ==
    IF df = <<>> THEN <<row>>
    ELSE IF row.Date < Head(df).Date THEN <<row>> \o df
    ELSE <<Head(df)>> \o InsertByDate(row, Tail(df))

RECURSIVE InsertionSort(_)
InsertionSort(df) ==
    IF df = <<>> THEN <<>>
    ELSE InsertByDate(df[Len(df)], InsertionSort(SubSeq(df, 1, Len(df) - 1)))

\* df.sort_values('Date').reset_index(drop=True); a frame already in ascending
\* order is left as it is
SortByDate(df) ==
    IF \A k \in 1..(Len(df) - 1) : df[k].Date <= df[k + 1].Date THEN df
    ELSE InsertionSort(df)

(***************************************************************************)
(* State                                                                   *)
(***************************************************************************)
VARIABLES
    tickers,        \* list(UNIVERSE.keys())
    api_key,        \* EODHDClient.api_key is set
    max_retries,    \* EODHDClient.max_retries
    batch_size,     \* download_universe_data: batch_size
    dlPc,           \* position in download_universe_data
    i,              \* loop index of download_universe_data (1-based, 0 before)
    results,        \* download_universe_data: results
    failed,         \* download_universe_data: failed
    started,        \* tickers whose loop iteration was entered, in order
    fetched,        \* tickers whose download_ticker_data returned a non-empty frame
    batch_pauses,   \* loop indexes after which the batch delay was slept
    attempt,        \* _make_request: attempt
    call_log,       \* HTTP requests and backoff sleeps of the current fetch
    pacing,         \* the rate limiter's clock readings, in seconds
    ny_minutes,     \* minutes since midnight in America/New_York when the run starts
    host_offset,    \* minutes by which the host's local clock is ahead of New York
    market,         \* bars each provider holds per ticker, up to today's session
    runPc,          \* position in run_full_analysis
    date_range,     \* run_full_analysis: start_date, end_date
    raw_data,       \* run_full_analysis: raw_data
    validated_data, \* run_full_analysis: validated_data
    indicator_inputs, \* frames handed to compute_all_indicators, by ticker
    processed_data, \* run_full_analysis: processed_data
    todo,           \* tickers the current loop of run_full_analysis has yet to visit
    all_scores,     \* run_full_analysis: all_scores
    market_regime,  \* run_full_analysis: market_regime
    instruments_data, \* run_full_analysis: instruments_data
    rankings,       \* run_full_analysis: rankings
    error_log,      \* per-symbol failures logged by the run: <<stage, ticker>>
    scPc,           \* position in score_instrument
    sc_input,       \* score_instrument: df, ticker, benchmark
    sc_faults,      \* the sub-scores whose try block raised during the call
    trend_parts,    \* calculate_trend_score: the four component scores of the call
    trend_score,    \* score_instrument: trend_score
    momentum_score, \* score_instrument: momentum_score
    volatility_score, \* score_instrument: volatility_score
    relative_strength_score, \* score_instrument: relative_strength_score
    scores,         \* score_instrument: scores (the reported score set)
    jsPc,           \* position in generate_json_report
    analysis_result, \* generate_json_report: analysis_result
    json_string,    \* generate_json_report: the document json.dumps emitted
    prPc,           \* position in the MACD-histogram ranking of calculate_momentum_score
    pr_series,      \* rolling_percentile_rank: series
    pr_rank,        \* rolling_percentile_rank(series, 252).iloc[-1]
    macd_rank,      \* calculate_momentum_score: macd_rank
    sgPc,           \* position in the signal and consolidation steps of one instrument
    sg_input,       \* the cleaned bars and the indicator cells of the instrument
    sg_frame,       \* the enriched frame handed to generate_signals
    signals,        \* generate_signals: signals
    signal_levels,  \* generate_signals: prev_week_high, prev_week_low
    key_levels      \* consolidate_instrument_data: key_levels

cfgVars == <<tickers, api_key, max_retries, batch_size>>

dlVars == <<dlPc, i, results, failed, started, fetched, batch_pauses, attempt, call_log,
           pacing>>

envVars == <<ny_minutes, host_offset, market>>

runVars == <<runPc, date_range, raw_data, validated_data, indicator_inputs, processed_data,
             todo, all_scores, market_regime, instruments_data, rankings, error_log>>

scoreVars == <<scPc, sc_input, sc_faults, trend_parts, trend_score, momentum_score, volatility_score,
               relative_strength_score, scores>>

jsonVars == <<jsPc, analysis_result, json_string>>

rankVars == <<prPc, pr_series, pr_rank, macd_rank>>

signalVars == <<sgPc, sg_input, sg_frame, signals, signal_levels, key_levels>>

\* what download_universe_data leaves alone
dlFrame == <<cfgVars, envVars, runVars, scoreVars, jsonVars, rankVars, signalVars>>

vars == <<cfgVars, dlVars, envVars, runVars, scoreVars, jsonVars, rankVars, signalVars>>

\* no provider-A client yet, no request issued
NoPacing == [fresh |-> TRUE, since |-> None, gap |-> None]

\* the state of a layer that the specification at hand does not exercise
DlIdle ==
    /\ dlPc = "idle"
    /\ i = 0
    /\ results = <<>>
    /\ failed = <<>>
    /\ started = <<>>
    /\ fetched = {}
    /\ batch_pauses = <<>>
    /\ attempt = 1
    /\ call_log = <<>>
    /\ pacing = NoPacing

EnvIdle ==
    /\ ny_minutes = 0
    /\ host_offset = 0
    /\ market = <<>>

RunIdle ==
    /\ runPc = "idle"
    /\ date_range = None
    /\ raw_data = <<>>
    /\ validated_data = <<>>
    /\ indicator_inputs = <<>>
    /\ processed_data = <<>>
    /\ todo = <<>>
    /\ all_scores = <<>>
    /\ market_regime = None
    /\ instruments_data = <<>>
    /\ rankings = None
    /\ error_log = {}

ScoreIdle ==
    /\ scPc = "idle"
    /\ sc_input = None
    /\ sc_faults = {}
    /\ trend_parts = None
    /\ trend_score = None
    /\ momentum_score = None
    /\ volatility_score = None
    /\ relative_strength_score = None
    /\ scores = None

JsonIdle ==
    /\ jsPc = "idle"
    /\ analysis_result = None
    /\ json_string = None

RankIdle ==
    /\ prPc = "idle"
    /\ pr_series = <<>>
    /\ pr_rank = None
    /\ macd_rank = None

SignalIdle ==
    /\ sgPc = "idle"
    /\ sg_input = None
    /\ sg_frame = None
    /\ signals = <<>>
    /\ signal_levels = None
    /\ key_levels = None

total_tickers == Len(tickers)

ticker == tickers[i]

(***************************************************************************)
(* Events of one fetch                                                     *)
(***************************************************************************)
Http(provider, outcome) == [kind |-> "http", provider |-> provider, outcome |-> outcome, secs |-> 0]

Sleep(secs) == [kind |-> "sleep", provider |-> "A", outcome |-> "backoff", secs |-> secs]

HttpCount(log, provider) ==
    Cardinality({k \in 1..Len(log) : log[k].kind = "http" /\ log[k].provider = provider})

(***************************************************************************)
(* EODHDClient.get_eod_data: conversion of the JSON payload                *)
(***************************************************************************)
get_eod_data(data) ==
    IF ~data.some THEN None
    ELSE IF data.val = <<>> THEN None
    ELSE LET df == SortByDate(data.val)
         IN  IF Len(df) < MIN_REQUIRED_ROWS THEN None ELSE Some(df)

\* fetch_from_yahoo: conversion of the downloaded frame
fetch_from_yahoo(data) ==
    IF ~data.some THEN None
    ELSE IF data.val = <<>> THEN None
    ELSE Some(SortByDate(data.val))

\* payloads a provider may answer with: 0..MaxRows well-formed bars
Payloads == {[k \in 1..n |-> OkRow(k, 20)] : n \in 0..MaxRows}

(***************************************************************************)
(* EODHDClient._apply_rate_limit and the sleeps of the loop.  pacing holds *)
(*   fresh  the client at hand has last_request_time = 0                   *)
(*   since  seconds since the last provider-A request of the fetch was     *)
(*          issued (None before the first), counted up to GapCap           *)
(*   gap    seconds between the last provider-A request and the one before *)
(***************************************************************************)
\* CONFIG['REQUEST_DELAY_MIN'], CONFIG['REQUEST_DELAY_MAX']
REQUEST_DELAY_MIN == 3

REQUEST_DELAY_MAX == 4

\* CONFIG['BATCH_DELAY_MIN'], CONFIG['BATCH_DELAY_MAX']
BATCH_DELAY_MIN == 4

BATCH_DELAY_MAX == 5

\* elapsed times are counted up to the longest delay the limiter can draw
GapCap == REQUEST_DELAY_MAX

\* seconds a request takes to come back: the shortest, which leaves the smallest gap
RoundTrips == {0}

Elapse(p, secs) ==
    [p EXCEPT !.since = IF p.since.some
                        THEN Some(IF p.since.val + secs > GapCap THEN GapCap
                                  ELSE p.since.val + secs)
                        ELSE None]

\* the limiter sleeps delay - elapsed if elapsed < delay, then stamps the request;
\* a fresh client measures elapsed from the epoch
apply_rate_limit(p, delay) ==
    LET sleep_time == IF ~p.fresh /\ p.since.some /\ p.since.val < delay
                      THEN delay - p.since.val ELSE 0
    IN  [fresh |-> FALSE,
         since |-> Some(0),
         gap |-> (Elapse(p, sleep_time)).since]

\* the batch delay slept at the end of iteration i
BatchDelays ==
    IF i % batch_size = 0 /\ i < total_tickers THEN BATCH_DELAY_MIN..BATCH_DELAY_MAX ELSE {0}

\* one provider-A request, the backoff slept after it and, when the fetch
\* ends with it, the batch delay
Requested(backoff, finishing) ==
    \E delay \in REQUEST_DELAY_MIN..REQUEST_DELAY_MAX : \E rtt \in RoundTrips :
    \E pause \in (IF finishing THEN BatchDelays ELSE {0}) :
        pacing' = Elapse(apply_rate_limit(pacing, delay), rtt + backoff + pause)

(***************************************************************************)
(* download_universe_data: end of one loop iteration                       *)
(***************************************************************************)
\* the try body after download_ticker_data returned df
FinishTicker(df) ==
    /\ IF df.some /\ df.val # <<>>
       THEN /\ results' = (ticker :> df.val) @@ results
            /\ fetched' = fetched \cup {ticker}
            /\ failed' = failed
       ELSE /\ failed' = Append(failed, ticker)
            /\ UNCHANGED <<results, fetched>>
    /\ batch_pauses' =
         IF i % batch_size = 0 /\ i < total_tickers
         THEN Append(batch_pauses, i) ELSE batch_pauses
    /\ dlPc' = "loop"
    /\ UNCHANGED <<i, started, attempt>>

TickerRaises_Uncaught ==
    /\ dlPc = "loop" /\ i < total_tickers
    /\ i' = i + 1
    /\ started' = Append(started, tickers[i + 1])
    /\ call_log' = <<>>
    /\ dlPc' = "raised"
    /\ UNCHANGED <<failed, results, fetched, batch_pauses, attempt, pacing, dlFrame>>

\* an exception inside the loop body (the progress callback, the client
\* constructor): the except branch records the ticker and the loop goes on
TickerRaises ==
    /\ dlPc = "loop" /\ i < total_tickers
    /\ i' = i + 1
    /\ started' = Append(started, tickers[i + 1])
    /\ failed' = Append(failed, tickers[i + 1])
    /\ call_log' = <<>>
    /\ UNCHANGED <<dlPc, results, fetched, batch_pauses, attempt, pacing, dlFrame>>

StartTicker_AllToProviderA ==
    /\ dlPc = "loop" /\ i < total_tickers
    /\ i' = i + 1
    /\ started' = Append(started, tickers[i + 1])
    /\ call_log' = <<>>
    /\ attempt' = 1
    /\ dlPc' = "eodhd"
    /\ pacing' = [pacing EXCEPT !.fresh = TRUE]
    /\ UNCHANGED <<results, failed, fetched, batch_pauses, dlFrame>>

\* for i, ticker in enumerate(tickers, 1): download_ticker_data routes the ticker
StartTicker ==
    /\ dlPc = "loop" /\ i < total_tickers
    /\ i' = i + 1
    /\ started' = Append(started, tickers[i + 1])
    /\ call_log' = <<>>
    /\ attempt' = 1
    /\ dlPc' = IF tickers[i + 1] = VIX THEN "yahoo" ELSE "eodhd"
    /\ pacing' = IF tickers[i + 1] = VIX THEN pacing ELSE [pacing EXCEPT !.fresh = TRUE]
    /\ UNCHANGED <<results, failed, fetched, batch_pauses, dlFrame>>

\* fetch_from_yahoo: one download, every exception swallowed
FetchFromYahoo ==
    /\ dlPc = "yahoo"
    /\ \E data \in {None} \cup {Some(p) : p \in Payloads} :
         /\ call_log' = Append(call_log, Http("B", IF data.some THEN "ok" ELSE "error"))
         /\ FinishTicker(fetch_from_yahoo(data))
    /\ \E rtt \in RoundTrips : \E pause \in BatchDelays : pacing' = Elapse(pacing, rtt + pause)
    /\ UNCHANGED dlFrame

(***************************************************************************)
(* EODHDClient._make_request: one step per attempt                         *)
(***************************************************************************)
RetryAllowed_OffByOne(a) == a <= max_retries

\* if attempt < self.max_retries
RetryAllowed(a) == a < max_retries

\* if not self.api_key: return None
NoKeyReturn ==
    /\ dlPc = "eodhd" /\ ~api_key
    /\ call_log' = call_log
    /\ FinishTicker(get_eod_data(None))
    /\ \E pause \in BatchDelays : pacing' = Elapse(pacing, pause)
    /\ UNCHANGED dlFrame

\* status 200: return response.json()
Resp200 ==
    /\ dlPc = "eodhd" /\ api_key
    /\ \E data \in Payloads :
         /\ call_log' = Append(call_log, Http("A", "200"))
         /\ FinishTicker(get_eod_data(Some(data)))
    /\ Requested(0, TRUE)
    /\ UNCHANGED dlFrame

\* status 401: return None
Resp401 ==
    /\ dlPc = "eodhd" /\ api_key
    /\ call_log' = Append(call_log, Http("A", "401"))
    /\ FinishTicker(get_eod_data(None))
    /\ Requested(0, TRUE)
    /\ UNCHANGED dlFrame

Resp4xx_Retried ==
    /\ dlPc = "eodhd" /\ api_key
    /\ IF RetryAllowed(attempt)
       THEN /\ call_log' = call_log \o <<Http("A", "4xx"), Sleep(2 ^ attempt)>>
            /\ attempt' = attempt + 1
            /\ Requested(2 ^ attempt, FALSE)
            /\ UNCHANGED <<dlPc, i, results, failed, started, fetched, batch_pauses>>
       ELSE /\ call_log' = Append(call_log, Http("A", "4xx"))
            /\ FinishTicker(get_eod_data(None))
            /\ Requested(0, TRUE)
    /\ UNCHANGED dlFrame

\* any other status (4xx other than 401 and 429, 1xx-3xx): return None
Resp4xx ==
    /\ dlPc = "eodhd" /\ api_key
    /\ call_log' = Append(call_log, Http("A", "4xx"))
    /\ FinishTicker(get_eod_data(None))
    /\ Requested(0, TRUE)
    /\ UNCHANGED dlFrame

\* status 429: sleep 60 * attempt, then retry while attempts remain
Resp429 ==
    /\ dlPc = "eodhd" /\ api_key
    /\ IF RetryAllowed(attempt)
       THEN /\ call_log' = call_log \o <<Http("A", "429"), Sleep(60 * attempt)>>
            /\ attempt' = attempt + 1
            /\ Requested(60 * attempt, FALSE)
            /\ UNCHANGED <<dlPc, i, results, failed, started, fetched, batch_pauses>>
       ELSE /\ call_log' = call_log \o <<Http("A", "429"), Sleep(60 * attempt)>>
            /\ FinishTicker(get_eod_data(None))
            /\ Requested(60 * attempt, TRUE)
    /\ UNCHANGED dlFrame

\* status >= 500: sleep 2 ** attempt and retry while attempts remain
Resp5xx ==
    /\ dlPc = "eodhd" /\ api_key
    /\ IF RetryAllowed(attempt)
       THEN /\ call_log' = call_log \o <<Http("A", "5xx"), Sleep(2 ^ attempt)>>
            /\ attempt' = attempt + 1
            /\ Requested(2 ^ attempt, FALSE)
            /\ UNCHANGED <<dlPc, i, results, failed, started, fetched, batch_pauses>>
       ELSE /\ call_log' = Append(call_log, Http("A", "5xx"))
            /\ FinishTicker(get_eod_data(None))
            /\ Requested(0, TRUE)
    /\ UNCHANGED dlFrame

\* requests.Timeout: sleep 2 ** attempt and retry while attempts remain
ReqTimeout ==
    /\ dlPc = "eodhd" /\ api_key
    /\ IF RetryAllowed(attempt)
       THEN /\ call_log' = call_log \o <<Http("A", "timeout"), Sleep(2 ^ attempt)>>
            /\ attempt' = attempt + 1
            /\ Requested(2 ^ attempt, FALSE)
            /\ UNCHANGED <<dlPc, i, results, failed, started, fetched, batch_pauses>>
       ELSE /\ call_log' = Append(call_log, Http("A", "timeout"))
            /\ FinishTicker(get_eod_data(None))
            /\ Requested(0, TRUE)
    /\ UNCHANGED dlFrame

\* any other exception (connection error, undecodable body): return None
ReqException ==
    /\ dlPc = "eodhd" /\ api_key
    /\ call_log' = Append(call_log, Http("A", "exception"))
    /\ FinishTicker(get_eod_data(None))
    /\ Requested(0, TRUE)
    /\ UNCHANGED dlFrame

\* the loop is exhausted: the summary is logged and results returned
ReturnResults ==
    /\ dlPc = "loop" /\ i = total_tickers
    /\ dlPc' = "returned"
    /\ UNCHANGED <<i, results, failed, started, fetched, batch_pauses, attempt, call_log, pacing,
                   dlFrame>>

(***************************************************************************)
(* Specification of download_universe_data                                 *)
(***************************************************************************)
Init ==
    /\ \E n \in 1..MaxUniverse : \E vixPos \in 0..n : tickers = MkUniverse(n, vixPos)
    /\ api_key \in BOOLEAN
    /\ max_retries \in 1..MaxRetriesCfg
    /\ batch_size \in 1..MaxBatchCfg
    /\ dlPc = "loop"
    /\ i = 0
    /\ results = <<>>
    /\ failed = <<>>
    /\ started = <<>>
    /\ fetched = {}
    /\ batch_pauses = <<>>
    /\ attempt = 1
    /\ call_log = <<>>
    /\ pacing = NoPacing
    /\ EnvIdle
    /\ RunIdle
    /\ ScoreIdle
    /\ JsonIdle
    /\ RankIdle
    /\ SignalIdle

Next ==
    \/ StartTicker
    \/ TickerRaises
    \/ FetchFromYahoo
    \/ NoKeyReturn
    \/ Resp200
    \/ Resp401
    \/ Resp4xx
    \/ Resp429
    \/ Resp5xx
    \/ ReqTimeout
    \/ ReqException
    \/ ReturnResults

Spec == Init /\ [][Next]_vars

(***************************************************************************)
(* Claims about the data acquisition layer                                 *)
(***************************************************************************)
Range(f) == {f[k] : k \in DOMAIN f}

\* a fetch of the current ticker is over (its loop iteration has ended)
FetchOver == i >= 1 /\ dlPc \in {"loop", "returned"}

Retryable == {"5xx", "timeout", "429"}

HttpOutcomes(log) == {log[k].outcome : k \in {j \in 1..Len(log) : log[j].kind = "http"}}

C1_Inv ==
    (i >= 1 /\ ticker # VIX) =>
        /\ attempt <= max_retries
        /\ HttpCount(call_log, "A") <= max_retries
        /\ dlPc = "eodhd" => HttpCount(call_log, "A") = attempt - 1
        /\ (FetchOver /\ call_log # <<>> /\ HttpOutcomes(call_log) \subseteq Retryable) =>
               /\ HttpCount(call_log, "A") = max_retries
               /\ ticker \in Range(failed)
               /\ ticker \notin DOMAIN results

C1_Step == [][dlPc = "eodhd" => (dlPc' # "eodhd" \/ attempt' = attempt + 1)]_vars

\* C1: one provider-A request issues at most MAX_RETRIES HTTP attempts whatever
\* mix of 5xx, timeout and 429 it meets (one attempt counter for the three
\* kinds), then returns a failure for the symbol; it terminates: every step of a
\* request in progress ends it or consumes one of the MAX_RETRIES attempts.
C1_BoundedRetries == []C1_Inv /\ C1_Step

\* a request that met all three retryable kinds and gave up at the last attempt
C1_Witness ==
    /\ FetchOver /\ ticker # VIX /\ max_retries = 3
    /\ HttpOutcomes(call_log) = Retryable
    /\ HttpCount(call_log, "A") = 3
    /\ ticker \in Range(failed)

\* C2: a 401, or a 4xx other than 401 and 429, is the last event of its
\* request at whatever attempt it arrives: no HTTP request and no backoff sleep
\* follows it, and the request has returned a failure.
C2_FailFast ==
    \A k \in 1..Len(call_log) :
        call_log[k].outcome \in {"401", "4xx"} =>
            /\ k = Len(call_log)
            /\ FetchOver
            /\ ticker \in Range(failed)
            /\ ticker \notin DOMAIN results

\* a 4xx received at the second attempt or later ended the request
C2_Witness ==
    /\ FetchOver /\ Len(call_log) >= 3
    /\ call_log[1].outcome \in Retryable
    /\ call_log[Len(call_log)].outcome = "4xx"
    /\ HttpCount(call_log, "A") >= 2

\* C3: the volatility index only ever reaches provider B and every other
\* ticker only provider A; without a provider-A key a provider-A fetch fails
\* with no HTTP request at all, while the volatility-index fetch still issues
\* its one provider-B download.
C3_Routing ==
    i >= 1 =>
        /\ ticker = VIX => HttpCount(call_log, "A") = 0
        /\ ticker # VIX => HttpCount(call_log, "B") = 0
        /\ (ticker # VIX /\ ~api_key) => call_log = <<>>
        /\ (ticker # VIX /\ ~api_key /\ FetchOver) =>
               (ticker \in Range(failed) /\ ticker \notin DOMAIN results)
        /\ (ticker = VIX /\ FetchOver /\ call_log # <<>>) =>
               HttpCount(call_log, "B") = 1
        /\ ~api_key => DOMAIN results \subseteq {VIX}

\* without a key a provider-A ticker has failed and the volatility index was fetched
C3_Witness ==
    /\ ~api_key /\ dlPc = "returned"
    /\ VIX \in DOMAIN results
    /\ \E t \in Range(failed) : t # VIX

\* C4: the loop enters every ticker once, in declared order, whatever happened
\* to the earlier ones; results holds exactly the tickers whose fetch returned a
\* non-empty frame, failed holds each other ticker once, and no single ticker
\* makes the function raise.
C4_EveryTickerOnce ==
    /\ dlPc # "raised"
    /\ started = SubSeq(tickers, 1, i)
    /\ (dlPc \in {"loop", "returned"}) =>
          /\ DOMAIN results = fetched
          /\ \A t \in DOMAIN results : results[t] # <<>>
          /\ failed = SelectSeq(SubSeq(tickers, 1, i), LAMBDA t : t \notin fetched)
    /\ dlPc = "returned" => i = total_tickers

\* a full universe where the first ticker raised, a later one failed and one succeeded
C4_Witness ==
    /\ dlPc = "returned" /\ total_tickers = 3
    /\ Len(failed) = 2 /\ failed[1] = tickers[1]
    /\ tickers[3] \in DOMAIN results

(***************************************************************************)
(* Clock and analysis window (data_fetcher.get_date_range_for_analysis)    *)
(* Dates are day numbers counted from the New York calendar day of the run *)
(***************************************************************************)
\* the America/New_York calendar date at the start of the run
today_ny == 0

MinutesPerDay == 24 * 60

\* New York times of day at which a run starts: 14:00 and 16:16
NyClockSamples == {14 * 60, 16 * 60 + 16}

\* hosts whose local clock is New York's, UTC (EST + 5 h) and Tokyo's (+ 14 h)
HostOffsets == {0, 5 * 60, 14 * 60}

\* the date of datetime.now() on the host
host_today == today_ny + ((ny_minutes + host_offset) \div MinutesPerDay)

\* the closing buffer: true from 16:15 New York time
market_closed_for_today == ny_minutes >= 16 * 60 + 15

\* CONFIG['DATA_LOOKBACK_DAYS']
DATA_LOOKBACK_DAYS == 30

get_date_range_for_analysis ==
    LET end_date == host_today - 1
        start_date == end_date - DATA_LOOKBACK_DAYS
    IN  [start |-> start_date, end |-> end_date]

(***************************************************************************)
(* Providers: the bars they hold and what a request returns                *)
(***************************************************************************)
\* a provider bar is well formed, has a missing close, or a zero open
RowKinds == {"ok", "nan", "zero"}

Bar(kind, d, px) ==
    CASE kind = "ok" -> OkRow(d, px)
      [] kind = "nan" -> Row(d, px, px + 1, px - 1, NaN, px)
      [] kind = "zero" -> Row(d, 0, px + 1, px - 1, px, px)

\* the bars of consecutive days a provider holds; the last is today's session
History(kinds, px) ==
    [k \in 1..Len(kinds) |-> Bar(kinds[k], today_ny - Len(kinds) + k, px)]

\* GET /eod/{symbol}?from=start&to=end: both ends inclusive
EodhdPayload(hist, start, end) ==
    SelectSeq(hist, LAMBDA r : start <= r.Date /\ r.Date <= end)

\* yf.download(start=, end=): end exclusive
YahooPayload(hist, start, end) ==
    SelectSeq(hist, LAMBDA r : start <= r.Date /\ r.Date < end)

\* download_ticker_data for one ticker; reachable: the provider answered
download_ticker_data(t, start, end, reachable) ==
    IF t = VIX
    THEN fetch_from_yahoo(IF reachable THEN Some(YahooPayload(market[t], start, end))
                          ELSE None)
    ELSE get_eod_data(IF reachable THEN Some(EodhdPayload(market[t], start, end))
                      ELSE None)

(***************************************************************************)
(* Validation and cleaning (data_fetcher.py)                               *)
(***************************************************************************)
IsNaN(x) == x = NaN

validate_dataframe(df) ==
    /\ df # <<>>
    /\ \A k \in 1..Len(df) :
          ~(IsNaN(df[k].Open) \/ IsNaN(df[k].High) \/ IsNaN(df[k].Low) \/ IsNaN(df[k].Close))
    /\ ~(Len(df) < MIN_REQUIRED_ROWS)

\* a NaN cell fails the comparison > 0, like any non-positive price
Positive(x) == ~IsNaN(x) /\ x > 0

clean_dataframe(df) ==
    LET dropna == SelectSeq(df, LAMBDA r : ~(IsNaN(r.Open) \/ IsNaN(r.High)
                                              \/ IsNaN(r.Low) \/ IsNaN(r.Close)))
        positive == SelectSeq(dropna, LAMBDA r : Positive(r.Open) /\ Positive(r.High)
                                                  /\ Positive(r.Low) /\ Positive(r.Close)
                                                  /\ Positive(r.AdjClose))
    IN  SortByDate(positive)

(***************************************************************************)
(* Indicator engine: the columns the orchestrator and the scorer read from *)
(* frames shorter than every scoring threshold                             *)
(***************************************************************************)
\* the sum of a sequence, by halves
RECURSIVE SumSeq(_)
SumSeq(s) ==
    IF s = <<>> THEN 0
    ELSE IF Len(s) = 1 THEN s[1]
    ELSE LET half == Len(s) \div 2
         IN  SumSeq(SubSeq(s, 1, half)) + SumSeq(SubSeq(s, half + 1, Len(s)))

\* series.rolling(window=w).mean(): NaN until w observations are in the window
RollingMean(col, w) ==
    [k \in 1..Len(col) |->
        IF k < w THEN NaN
        ELSE LET win == SubSeq(col, k - w + 1, k)
             IN  IF \E j \in 1..w : IsNaN(win[j]) THEN NaN ELSE SumSeq(win) \div w]

Column(df, name) ==
    [k \in 1..Len(df) |->
        CASE name = "Date" -> df[k].Date
          [] name = "Close" -> df[k].Close
          [] name = "High" -> df[k].High
          [] name = "Low" -> df[k].Low
          [] name = "Volume" -> df[k].Volume
          [] name = "AdjClose" -> df[k].AdjClose]

Max(a, b) == IF a > b THEN a ELSE b

Min(a, b) == IF a < b THEN a ELSE b

Abs(x) == IF x < 0 THEN 0 - x ELSE x

\* series.shift(n): the value n rows earlier, NaN on the first n rows
Shift(col, n) == [k \in 1..Len(col) |-> IF k <= n THEN NaN ELSE col[k - n]]

\* series.rolling(window=w).max(): NaN until w observations are in the window
RollingMax(col, w) ==
    [k \in 1..Len(col) |->
        IF k < w THEN NaN
        ELSE LET win == SubSeq(col, k - w + 1, k)
             IN  IF \E j \in 1..w : IsNaN(win[j]) THEN NaN
                 ELSE CHOOSE x \in {win[j] : j \in 1..w} : \A j \in 1..w : win[j] <= x]

\* series.pct_change(periods=n) * 100, in hundredths of a percent
PctChange(col, n) ==
    [k \in 1..Len(col) |->
        IF k <= n \/ IsNaN(col[k]) \/ IsNaN(col[k - n]) \/ col[k - n] = 0 THEN NaN
        ELSE ((col[k] - col[k - n]) * 10000) \div col[k - n]]

\* the true range of each bar: max(axis=1) skips the NaN of the first row
TrueRange(df) ==
    LET prev == Shift(Column(df, "AdjClose"), 1)
    IN  [k \in 1..Len(df) |->
            LET tr1 == df[k].High - df[k].Low
            IN  IF IsNaN(prev[k]) THEN tr1
                ELSE Max(tr1, Max(Abs(df[k].High - prev[k]), Abs(df[k].Low - prev[k])))]

\* the smoothed values of rows Len(acc) + 1 .. upto, appended to those of the rows before
RECURSIVE EwmRows(_, _, _, _)
EwmRows(series, period, acc, upto) ==
    IF Len(acc) >= upto THEN acc
    ELSE LET k == Len(acc) + 1
             y == IF k = 1 THEN 100 * series[1]
                  ELSE ((period - 1) * acc[k - 1] + 100 * series[k]) \div period
         IN  EwmRows(series, period, Append(acc, y), upto)

\* the same, sixteen rows at a time
RECURSIVE EwmFrom(_, _, _)
EwmFrom(series, period, acc) ==
    IF Len(acc) >= Len(series) THEN acc
    ELSE EwmFrom(series, period, EwmRows(series, period, acc, Min(Len(acc) + 16, Len(series))))

\* series.ewm(alpha=1/period, adjust=False).mean(), in hundredths
wilder_smoothing(series, period) == EwmFrom(series, period, <<>>)

\* the pivot of the previous bar
pivot_point(df) ==
    LET h == Shift(Column(df, "High"), 1)
        l == Shift(Column(df, "Low"), 1)
        c == Shift(Column(df, "AdjClose"), 1)
    IN  [k \in 1..Len(df) |-> IF IsNaN(h[k]) THEN NaN ELSE (h[k] + l[k] + c[k]) \div 3]

\* the volume each bar adds to the on-balance volume
ObvStep(df, k) ==
    IF k = 1 THEN 0
    ELSE IF df[k].AdjClose > df[k - 1].AdjClose THEN df[k].Volume
    ELSE IF df[k].AdjClose < df[k - 1].AdjClose THEN 0 - df[k].Volume
    ELSE 0

OBV(df) == [k \in 1..Len(df) |-> SumSeq([j \in 1..k |-> ObvStep(df, j)])]

\* Volume / Volume_SMA_20, in hundredths
Volume_ratio(df) ==
    LET sma == RollingMean(Column(df, "Volume"), 20)
    IN  [k \in 1..Len(df) |-> IF IsNaN(sma[k]) \/ sma[k] = 0 THEN NaN
                                ELSE (df[k].Volume * 100) \div sma[k]]

\* the columns calculate_volume_indicators adds
VolumeColumns == {"Volume_ratio", "OBV"}

\* pd.DataFrame(): no rows, no columns
EmptyFrame == [rows |-> <<>>, Date |-> <<>>, Close |-> <<>>, SMA_200 |-> <<>>, columns |-> {}]

compute_all_indicators(df) ==
    LET sorted == SortByDate(df)
        with_volume == SumSeq(Column(sorted, "Volume")) > 0
    IN  [rows |-> sorted,
         Date |-> Column(sorted, "Date"),
         Close |-> Column(sorted, "Close"),
         prev_day_high |-> Shift(Column(sorted, "High"), 1),
         prev_week_high |-> RollingMax(Shift(Column(sorted, "High"), 1), 5),
         pivot_point |-> pivot_point(sorted),
         SMA_200 |-> RollingMean(Column(sorted, "AdjClose"), 200),
         ATR |-> wilder_smoothing(TrueRange(sorted), 14),
         return_1d |-> PctChange(Column(sorted, "AdjClose"), 1),
         Volume_ratio |-> IF with_volume THEN Volume_ratio(sorted) ELSE <<>>,
         OBV |-> IF with_volume THEN OBV(sorted) ELSE <<>>,
         columns |-> {"Date", "Close", "prev_day_high", "prev_week_high", "pivot_point",
                      "SMA_200", "ATR", "return_1d"}
                     \cup (IF with_volume THEN VolumeColumns ELSE {})]

(***************************************************************************)
(* market_analysis.detect_market_regime                                    *)
(***************************************************************************)
VIX_LOW == 15

VIX_MEDIUM == 25

Last(col) == col[Len(col)]

\* the boundaries fall in the lower class
vix_regime_BoundaryBelow(vix_current) ==
    IF ~IsNaN(vix_current) /\ vix_current <= VIX_LOW THEN "low"
    ELSE IF ~IsNaN(vix_current) /\ vix_current <= VIX_MEDIUM THEN "medium"
    ELSE "high"

\* if vix_current < VIX_LOW ... elif vix_current < VIX_MEDIUM ... else; a NaN
\* level fails both comparisons
vix_regime_of(vix_current) ==
    IF ~IsNaN(vix_current) /\ vix_current < VIX_LOW THEN "low"
    ELSE IF ~IsNaN(vix_current) /\ vix_current < VIX_MEDIUM THEN "medium"
    ELSE "high"

\* a close equal to the average counts as above it
spy_above_sma200_OrEqual(spy_current, spy_sma200) ==
    ~IsNaN(spy_current) /\ spy_current >= spy_sma200

\* spy_current > spy_sma200, for spy_sma200 not NaN
spy_above_sma200_of(spy_current, spy_sma200) ==
    ~IsNaN(spy_current) /\ spy_current > spy_sma200

detect_market_regime(vix_df, spy_df) ==
    LET vix_present == vix_df.Close # <<>>
        vix_current == Last(vix_df.Close)
        vix_regime ==
            IF ~vix_present THEN "unknown" ELSE vix_regime_of(vix_current)
        risk_appetite ==
            IF vix_regime = "low" THEN "risk-on"
            ELSE IF vix_regime = "high" THEN "risk-off"
            ELSE "neutral"
        spy_known ==
            /\ spy_df.Close # <<>>
            /\ "SMA_200" \in spy_df.columns
            /\ ~IsNaN(Last(spy_df.SMA_200))
        spy_above_sma200 == spy_above_sma200_of(Last(spy_df.Close), Last(spy_df.SMA_200))
        spy_trend ==
            IF ~spy_known THEN "unknown"
            ELSE IF spy_above_sma200 THEN "uptrend"
            ELSE "downtrend"
        market_condition ==
            IF vix_regime = "low" /\ spy_trend = "uptrend" THEN "bullish"
            ELSE IF vix_regime = "high" /\ spy_trend = "downtrend" THEN "bearish"
            ELSE IF vix_regime = "high" /\ spy_trend = "uptrend" THEN "volatile_bullish"
            ELSE IF vix_regime = "low" /\ spy_trend = "downtrend" THEN "quiet_bearish"
            ELSE "neutral"
    IN  [vix_level |-> IF vix_present THEN Some(vix_current) ELSE None,
         vix_regime |-> vix_regime,
         spy_trend |-> spy_trend,
         spy_above_sma200 |-> IF spy_known THEN Some(spy_above_sma200) ELSE None,
         market_condition |-> market_condition,
         risk_appetite |-> risk_appetite,
         \* the summary log line formats vix_level with :.2f; with vix_level None
         \* that raises TypeError inside the try block, after every field is set
         log_raised |-> ~vix_present]

(***************************************************************************)
(* Scoring engine (scoring_system.py) in fixed point:                      *)
(*   prices and indicator values    hundredths                             *)
(*   component scores               thousandths of a point                 *)
(*   sub-scores before rounding     1e-5 point                             *)
(*   composite before rounding      1e-7 point                             *)
(*   reported scores                hundredths of a point                  *)
(* An enriched frame holds the columns Date and Close, the optional        *)
(* columns MACD_histogram, ATR_pct and BB_width (None: column absent) and  *)
(* the indicator cells of its last row (NaN: cell missing or not a number).*)
(***************************************************************************)
\* p points as a component score
Pts(p) == p * 1000

\* p points as a sub-score
SubPts(p) == p * 100000

\* a clamp that forgets the upper limit
Clamp_NoCeiling(x, hi) == IF IsNaN(x) THEN hi ELSE Max(0, x)

\* max(0, min(hi, x)); min(hi, nan) is hi in Python
Clamp(x, hi) == IF IsNaN(x) THEN hi ELSE Max(0, Min(hi, x))

normalize_val(value, min_val, max_val) ==
    IF IsNaN(value) THEN Pts(50)
    ELSE LET clipped == Max(Min(value, max_val), min_val)
         IN  ((clipped - min_val) * Pts(100)) \div (max_val - min_val)

\* the current value counts as below itself
rolling_percentile_rank_AtOrBelow(series, window) ==
    LET n == Len(series)
        x == SubSeq(series, Max(1, n - window + 1), n)
        observed == Cardinality({k \in 1..Len(x) : ~IsNaN(x[k])})
        below == Cardinality({k \in 1..Len(x) :
                     ~IsNaN(x[k]) /\ ~IsNaN(Last(x)) /\ x[k] <= Last(x)})
    IN  IF n = 0 \/ observed < 50 THEN NaN
        ELSE (below * Pts(100)) \div Len(x)

\* rolling(window, min_periods=50).apply((x < x.iloc[-1]).mean() * 100).iloc[-1]
rolling_percentile_rank(series, window) ==
    LET n == Len(series)
        x == SubSeq(series, Max(1, n - window + 1), n)
        observed == Cardinality({k \in 1..Len(x) : ~IsNaN(x[k])})
        below == Cardinality({k \in 1..Len(x) :
                     ~IsNaN(x[k]) /\ ~IsNaN(Last(x)) /\ x[k] < Last(x)})
    IN  IF n = 0 \/ observed < 50 THEN NaN
        ELSE (below * Pts(100)) \div Len(x)

\* an undefined rank counts as the lowest rank
RankOrNeutral_NaNAsZero(column) ==
    IF ~column.some THEN Pts(50)
    ELSE LET rank == rolling_percentile_rank(column.val, 252)
         IN  IF IsNaN(rank) THEN 0 ELSE rank

\* percentile rank of an optional column, 50 when absent or undefined
RankOrNeutral(column) ==
    IF ~column.some THEN Pts(50)
    ELSE LET rank == rolling_percentile_rank(column.val, 252)
         IN  IF IsNaN(rank) THEN Pts(50) ELSE rank

OrDefault(cell, default) == IF IsNaN(cell) THEN default ELSE cell

\* the ADX-direction component: base 50, plus or minus the ADX strength
adx_comp_score(last) ==
    LET adx == OrDefault(last.ADX, 2000)
        plus_di == OrDefault(last.plus_DI, 5000)
        minus_di == OrDefault(last.minus_DI, 5000)
        adx_clamped == Max(0, Min(adx, 5000))
        direction_mult == IF plus_di > minus_di THEN 1 ELSE 0 - 1
    IN  Clamp(5000 + ((adx_clamped - 2500) * 2 * direction_mult), 10000) * 10

\* the daily breakdown is tested before the weekly one
pattern_score_DailyFirst(last) ==
    LET close == last.Close
    IN  IF ~IsNaN(last.prev_day_low) /\ close < last.prev_day_low THEN Pts(25)
        ELSE IF ~IsNaN(last.prev_week_low) /\ close < last.prev_week_low THEN Pts(0)
        ELSE IF ~IsNaN(last.prev_week_high) /\ close > last.prev_week_high THEN Pts(100)
        ELSE IF ~IsNaN(last.prev_day_high) /\ close > last.prev_day_high THEN Pts(75)
        ELSE IF ~IsNaN(last.pivot_point) /\ close > last.pivot_point THEN Pts(60)
        ELSE Pts(50)

\* the pattern component: the if/elif chain over the price levels
pattern_score(last) ==
    LET close == last.Close
        pwh == last.prev_week_high
        pwl == last.prev_week_low
        pdh == last.prev_day_high
        pdl == last.prev_day_low
        pivot == last.pivot_point
    IN  IF ~IsNaN(pwl) /\ close < pwl THEN Pts(0)
        ELSE IF ~IsNaN(pdl) /\ close < pdl THEN Pts(25)
        ELSE IF ~IsNaN(pwh) /\ close > pwh THEN Pts(100)
        ELSE IF ~IsNaN(pdh) /\ close > pdh THEN Pts(75)
        ELSE IF ~IsNaN(pivot) /\ close > pivot THEN Pts(60)
        ELSE Pts(50)

\* the four components of the trend score, from the last row
trend_components(last) ==
    LET close == last.Close
        above(sma) == IF ~IsNaN(sma) /\ close > sma THEN 25 ELSE 0
        roc_20 == OrDefault(last.ROC_20, 0)
    IN  [sma_score |-> Pts(above(last.SMA_20) + above(last.SMA_50)
                           + above(last.SMA_125) + above(last.SMA_200)),
         adx_comp_score |-> adx_comp_score(last),
         roc_score |-> normalize_val(roc_20, 0 - 2000, 2000),
         pattern_score |-> pattern_score(last)]

calculate_trend_score(e, raises) ==
    IF Len(e.Date) < 5 THEN SubPts(50)
    ELSE IF raises THEN SubPts(50)
    ELSE
    LET c == trend_components(e.last)
        score == (c.sma_score * 30) + (c.adx_comp_score * 25) + (c.roc_score * 25)
                   + (c.pattern_score * 20)
    IN  Clamp(score, SubPts(100))

calculate_momentum_score(e, raises) ==
    IF Len(e.Date) < 50 THEN SubPts(50)
    ELSE IF raises THEN SubPts(50)
    ELSE
    LET last == e.last
        rsi == OrDefault(last.RSI, 5000)
        rsi_score == Clamp(rsi, 10000) * 10
        macd_score == Clamp(RankOrNeutral(e.MACD_histogram), Pts(100))
        roc10 == OrDefault(last.ROC_10, 0)
        roc20 == OrDefault(last.ROC_20, 0)
        roc60 == OrDefault(last.ROC_60, 0)
        roc_composite_val == ((roc10 * 5) + (roc20 * 3) + (roc60 * 2)) \div 10
        roc_comp_score == normalize_val(roc_composite_val, 0 - 2000, 2000)
        score == (rsi_score * 35) + (macd_score * 35) + (roc_comp_score * 30)
    IN  Clamp(score, SubPts(100))

calculate_volatility_score(e, raises) ==
    IF Len(e.Date) < 50 THEN SubPts(50)
    ELSE IF raises THEN SubPts(50)
    ELSE
    LET last == e.last
        atr_rank == RankOrNeutral(e.ATR_pct)
        bb_rank == RankOrNeutral(e.BB_width)
        hvol_20 == OrDefault(last.HVol_20, 2000)
        hvol_60 == IF IsNaN(last.HVol_60) \/ last.HVol_60 = 0 THEN 2000 ELSE last.HVol_60
        hv_ratio == (hvol_20 * 1000) \div hvol_60
        hv_score == normalize_val(hv_ratio, 500, 1500)
        score == (atr_rank * 40) + (bb_rank * 35) + (hv_score * 25)
    IN  Clamp(score, SubPts(100))

\* pd.merge(df_close, bench_close, on='Date', how='inner'): the positions of the
\* symbol's rows whose date the benchmark also has, in the symbol's order
MergedRows(e, b) ==
    SelectSeq([k \in 1..Len(e.Date) |-> k],
              LAMBDA k : \E j \in 1..Len(b.Date) : b.Date[j] = e.Date[k])

BenchCloseOn(b, d) == b.Close[CHOOSE j \in 1..Len(b.Date) : b.Date[j] = d]

\* merged['rs_ratio'], in 1e-4
RsRatio(e, b) ==
    LET rows == MergedRows(e, b)
    IN  [m \in 1..Len(rows) |->
            (e.Close[rows[m]] * 10000) \div BenchCloseOn(b, e.Date[rows[m]])]

\* a join of exactly 50 rows counted as too short
TooFewAligned_Inclusive(aligned) == aligned <= 50

\* if len(merged) < 50: return 50.0
TooFewAligned(aligned) == aligned < 50

calculate_relative_strength_score(e, benchmark_df, tkr, benchmark_ticker, raises) ==
    IF e.Date = <<>> THEN SubPts(50)
    ELSE IF benchmark_ticker \in {"Self", tkr, "N/A"} THEN SubPts(50)
    ELSE IF ~benchmark_df.some THEN SubPts(50)
    ELSE IF benchmark_df.val.Date = <<>> THEN SubPts(50)
    ELSE IF raises THEN SubPts(50)
    ELSE IF TooFewAligned(Len(MergedRows(e, benchmark_df.val))) THEN SubPts(50)
    ELSE
    LET rs_ratio == RsRatio(e, benchmark_df.val)
        n == Len(rs_ratio)
        rank == rolling_percentile_rank(rs_ratio, 252)
        rs_rank == IF IsNaN(rank) THEN Pts(50) ELSE rank
        \* rs_momentum * 100 * 0.5 with rs_momentum = pct_change(periods=10)
        momentum_adjustment == ((rs_ratio[n] - rs_ratio[n - 10]) * Pts(50)) \div rs_ratio[n - 10]
        rs_score == rs_rank + momentum_adjustment
    IN  Clamp(rs_score, Pts(100)) * 100

\* the weights of the composite: trend 0.30, momentum 0.30, volatility 0.15,
\* relative strength 0.25, in hundredths
WEIGHTS == [TREND |-> 30, MOMENTUM |-> 30, VOLATILITY |-> 15, REL_STRENGTH |-> 25]

\* round(x, 2) of x >= 0 held in units of 1/unit hundredths; a decimal tie has
\* no exact binary representation, so either neighbour can be the result
Round2(x, unit, tieUp) ==
    LET q == x \div unit
        r == x % unit
    IN  IF 2 * r < unit THEN q
        ELSE IF 2 * r > unit THEN q + 1
        ELSE IF tieUp THEN q + 1 ELSE q

\* the composite without the inversion of the volatility sub-score
calculate_composite_score_NoInversion(trend, momentum, volatility, relative_strength, tieUp) ==
    LET composite == (trend * WEIGHTS.TREND) + (momentum * WEIGHTS.MOMENTUM)
                       + (volatility * WEIGHTS.VOLATILITY)
                       + (relative_strength * WEIGHTS.REL_STRENGTH)
    IN  Round2(Clamp(composite, SubPts(100) * 100), 100000, tieUp)

calculate_composite_score(trend, momentum, volatility, relative_strength, tieUp) ==
    LET volatility_inverted == SubPts(100) - volatility
        composite == (trend * WEIGHTS.TREND) + (momentum * WEIGHTS.MOMENTUM)
                       + (volatility_inverted * WEIGHTS.VOLATILITY)
                       + (relative_strength * WEIGHTS.REL_STRENGTH)
    IN  Round2(Clamp(composite, SubPts(100) * 100), 100000, tieUp)

ScoreNames == {"composite", "trend", "momentum", "volatility", "relative_strength"}

\* which way each of the five roundings goes on a tie
TieChoices == [ScoreNames -> BOOLEAN]

\* score_instrument: the dict it returns
ScoreSet(trend, momentum, volatility, relative_strength, ties) ==
    [composite |-> calculate_composite_score(trend, momentum, volatility,
                                             relative_strength, ties["composite"]),
     trend |-> Round2(trend, 1000, ties["trend"]),
     momentum |-> Round2(momentum, 1000, ties["momentum"]),
     volatility |-> Round2(volatility, 1000, ties["volatility"]),
     relative_strength |-> Round2(relative_strength, 1000, ties["relative_strength"])]

BenchmarkFrame(benchmark_ticker, data_dict) ==
    IF benchmark_ticker \in DOMAIN data_dict THEN Some(data_dict[benchmark_ticker]) ELSE None

\* faults: the sub-scores whose try block raises
score_instrument(e, tkr, benchmark_ticker, data_dict, faults, ties) ==
    ScoreSet(calculate_trend_score(e, "trend" \in faults),
             calculate_momentum_score(e, "momentum" \in faults),
             calculate_volatility_score(e, "volatility" \in faults),
             calculate_relative_strength_score(e, BenchmarkFrame(benchmark_ticker, data_dict),
                                               tkr, benchmark_ticker,
                                               "relative_strength" \in faults),
             ties)

\* score_universe: the except branch
FallbackScores ==
    [composite |-> 5000, trend |-> 5000, momentum |-> 5000, volatility |-> 5000,
     relative_strength |-> 5000]

\* the keys of a dict built while iterating the universe, in insertion order
KeysInOrder(d) == SelectSeq(tickers, LAMBDA t : t \in DOMAIN d)

(***************************************************************************)
(* scoring_system.generate_rankings.  An item of a ranking is the ticker;  *)
(* its scores are those of scores_dict.                                    *)
(***************************************************************************)
Reverse(seq) == [k \in 1..Len(seq) |-> seq[Len(seq) + 1 - k]]

\* the position an item takes in a list already sorted: behind every item that
\* does not have to follow it, so that items of equal key keep their order
RECURSIVE InsertByKey(_, _, _, _)
InsertByKey(item, done, key, reverse) ==
    IF done = <<>> THEN <<item>>
    ELSE IF (IF reverse THEN key[Head(done)] < key[item] ELSE key[Head(done)] > key[item])
         THEN <<item>> \o done
         ELSE <<Head(done)>> \o InsertByKey(item, Tail(done), key, reverse)

RECURSIVE StableSort(_, _, _)
StableSort(items, key, reverse) ==
    IF items = <<>> THEN <<>>
    ELSE InsertByKey(items[Len(items)], StableSort(SubSeq(items, 1, Len(items) - 1), key, reverse),
                     key, reverse)

\* a descending sort obtained by reversing the ascending one
sorted_AscendingReversed(items, key, reverse) ==
    IF reverse THEN Reverse(StableSort(items, key, FALSE)) ELSE StableSort(items, key, FALSE)

\* sorted(items, key=..., reverse=...): stable in both directions
sorted(items, key, reverse) == StableSort(items, key, reverse)

generate_rankings(scores_dict) ==
    LET items == KeysInOrder(scores_dict)
        key(name) == [t \in DOMAIN scores_dict |-> scores_dict[t][name]]
    IN  [by_composite_score |-> sorted(items, key("composite"), TRUE),
         by_trend |-> sorted(items, key("trend"), TRUE),
         by_momentum |-> sorted(items, key("momentum"), TRUE),
         by_volatility |-> sorted(items, key("volatility"), FALSE),
         by_relative_strength |-> sorted(items, key("relative_strength"), TRUE)]

(***************************************************************************)
(* market_analysis.run_full_analysis: one step per stage, one step per     *)
(* ticker in the indicator loop and in the scoring loop.  Frames of a run  *)
(* stay under 5 rows, where no sub-score reaches its try block and no      *)
(* signal is generated.                                                    *)
(***************************************************************************)
\* what run_full_analysis leaves alone
runFrame == <<cfgVars, dlVars, envVars, scoreVars, jsonVars, rankVars, signalVars>>

\* UNIVERSE[ticker]['benchmark']
UniverseBenchmark(t) ==
    IF t = SPY THEN "Self" ELSE IF t = VIX THEN "N/A" ELSE SPY

NoFaults == {}

TiesDown == [n \in ScoreNames |-> FALSE]

\* consolidate_instrument_data for a non-empty frame
consolidate_instrument_data(t, e, sc) ==
    [benchmark |-> UniverseBenchmark(t), price |-> Last(e.Close), scores |-> sc]

\* STEP 1: get_date_range_for_analysis and download_universe_data; down: the
\* tickers whose provider request fails
RunDownload ==
    /\ runPc = "start"
    /\ \E down \in SUBSET Range(tickers) :
         LET range == get_date_range_for_analysis
             df(t) == download_ticker_data(t, range.start, range.end, t \notin down)
             got == {t \in Range(tickers) : df(t).some /\ df(t).val # <<>>}
         IN  /\ date_range' = range
             /\ raw_data' = [t \in got |-> df(t).val]
             /\ error_log' = {<<"fetch", t>> : t \in Range(tickers) \ got}
    /\ runPc' = "downloaded"
    /\ UNCHANGED <<validated_data, indicator_inputs, processed_data, todo, all_scores,
                   market_regime, instruments_data, rankings, runFrame>>

\* if not raw_data: raise; the outer except re-raises
RunAbortNoData ==
    /\ runPc = "downloaded"
    /\ DOMAIN raw_data = {}
    /\ runPc' = "raised"
    /\ UNCHANGED <<date_range, raw_data, validated_data, indicator_inputs, processed_data,
                   todo, all_scores, market_regime, instruments_data, error_log, rankings, runFrame>>

\* STEP 2: validate the downloaded frame, then clean it
RunValidate ==
    /\ runPc = "downloaded"
    /\ DOMAIN raw_data # {}
    /\ LET valid == {t \in DOMAIN raw_data : validate_dataframe(raw_data[t])}
           cleaned == [t \in valid |-> clean_dataframe(raw_data[t])]
       IN  /\ validated_data' = cleaned
           /\ todo' = KeysInOrder(cleaned)
           /\ error_log' = error_log \cup {<<"validation", t>> : t \in DOMAIN raw_data \ valid}
    /\ runPc' = "indicators"
    /\ UNCHANGED <<date_range, raw_data, indicator_inputs, processed_data, all_scores,
                   market_regime, instruments_data, rankings, runFrame>>

\* the indicator loop without its try/except: an indicator error ends the run
RunIndicatorStep_Uncaught ==
    /\ runPc = "indicators"
    /\ todo # <<>>
    /\ LET t == Head(todo)
           df == validated_data[t]
       IN  /\ indicator_inputs' = (t :> df) @@ indicator_inputs
           /\ \E raises \in BOOLEAN :
                /\ processed_data' = IF raises THEN processed_data
                                     ELSE (t :> compute_all_indicators(df)) @@ processed_data
                /\ error_log' = IF raises THEN error_log \cup {<<"indicators", t>>}
                                ELSE error_log
                /\ runPc' = IF raises THEN "raised" ELSE runPc
    /\ todo' = Tail(todo)
    /\ UNCHANGED <<date_range, raw_data, validated_data, all_scores, market_regime,
                   instruments_data, rankings, runFrame>>

\* STEP 3, one ticker: compute_all_indicators returns or raises
RunIndicatorStep ==
    /\ runPc = "indicators"
    /\ todo # <<>>
    /\ LET t == Head(todo)
           df == validated_data[t]
       IN  /\ indicator_inputs' = (t :> df) @@ indicator_inputs
           /\ \E raises \in BOOLEAN :
                /\ processed_data' = IF raises THEN processed_data
                                     ELSE (t :> compute_all_indicators(df)) @@ processed_data
                /\ error_log' = IF raises THEN error_log \cup {<<"indicators", t>>}
                                ELSE error_log
    /\ todo' = Tail(todo)
    /\ UNCHANGED <<runPc, date_range, raw_data, validated_data, all_scores, market_regime,
                   instruments_data, rankings, runFrame>>

\* scoring begins while symbols still wait for their indicators
RunStartScoring_Early ==
    /\ runPc = "indicators"
    /\ runPc' = "scoring"
    /\ todo' = KeysInOrder(processed_data)
    /\ UNCHANGED <<date_range, raw_data, validated_data, indicator_inputs, processed_data,
                   all_scores, market_regime, instruments_data, error_log, rankings, runFrame>>

\* STEP 4 begins once the indicator loop is over
RunStartScoring ==
    /\ runPc = "indicators"
    /\ todo = <<>>
    /\ runPc' = "scoring"
    /\ todo' = KeysInOrder(processed_data)
    /\ UNCHANGED <<date_range, raw_data, validated_data, indicator_inputs, processed_data,
                   all_scores, market_regime, instruments_data, error_log, rankings, runFrame>>

\* score_universe, one ticker: score_instrument returns or raises
RunScoreStep ==
    /\ runPc = "scoring"
    /\ todo # <<>>
    /\ LET t == Head(todo)
       IN  \E raises \in BOOLEAN :
             /\ all_scores' =
                   (t :> IF raises THEN FallbackScores
                         ELSE score_instrument(processed_data[t], t, UniverseBenchmark(t),
                                               processed_data, NoFaults, TiesDown))
                   @@ all_scores
             /\ error_log' = IF raises THEN error_log \cup {<<"scoring", t>>} ELSE error_log
    /\ todo' = Tail(todo)
    /\ UNCHANGED <<runPc, date_range, raw_data, validated_data, indicator_inputs,
                   processed_data, market_regime, instruments_data, rankings, runFrame>>

\* STEP 5: detect_market_regime on the reference frames, pd.DataFrame() if absent
RunDetectRegime ==
    /\ runPc = "scoring"
    /\ todo = <<>>
    /\ LET vix_df == IF VIX \in DOMAIN processed_data THEN processed_data[VIX] ELSE EmptyFrame
           spy_df == IF SPY \in DOMAIN processed_data THEN processed_data[SPY] ELSE EmptyFrame
       IN  market_regime' = detect_market_regime(vix_df, spy_df)
    /\ runPc' = "consolidate"
    /\ UNCHANGED <<date_range, raw_data, validated_data, indicator_inputs, processed_data,
                   todo, all_scores, instruments_data, error_log, rankings, runFrame>>

\* STEP 6 and 7: consolidate_instrument_data returns None for an empty frame;
\* the result package is returned
RunConsolidate ==
    /\ runPc = "consolidate"
    /\ instruments_data' =
           [t \in {u \in DOMAIN processed_data : processed_data[u].rows # <<>>} |->
               consolidate_instrument_data(t, processed_data[t], all_scores[t])]
    /\ rankings' = Some(generate_rankings(all_scores))
    /\ runPc' = "returned"
    /\ UNCHANGED <<date_range, raw_data, validated_data, indicator_inputs, processed_data,
                   todo, all_scores, market_regime, error_log, runFrame>>

(***************************************************************************)
(* Specification of run_full_analysis.  Two families of runs:              *)
(*   a universe with both reference symbols, started at 14:00 on a New     *)
(*   York host, every history healthy or holding a bar without a close;    *)
(*   a universe of one symbol, every clock and every history explored.     *)
(***************************************************************************)
\* levels of the volatility index: under VIX_LOW, between, above VIX_MEDIUM
VixLevels == {12, 20, 30}

PriceOf(t, vixLevel) == IF t = VIX THEN vixLevel ELSE 20

KindSeqs(n) == [1..n -> RowKinds]

UniverseKinds ==
    {[k \in 1..(MaxRows + 1) |-> "ok"],
     [k \in 1..(MaxRows + 1) |-> IF k = 1 THEN "nan" ELSE "ok"]}

InitRun ==
    /\ \/ /\ tickers = MkUniverse(RunUniverse, 2)
          /\ ny_minutes = 14 * 60
          /\ host_offset = 0
          /\ \E kinds \in [Range(tickers) -> UniverseKinds] : \E lvl \in VixLevels :
                market = [t \in Range(tickers) |-> History(kinds[t], PriceOf(t, lvl))]
       \/ /\ \E vixPos \in 0..1 : tickers = MkUniverse(1, vixPos)
          /\ ny_minutes \in NyClockSamples
          /\ host_offset \in HostOffsets
          /\ \E n \in 1..MaxRows : \E kinds \in KindSeqs(n) :
                market = [t \in Range(tickers) |-> History(kinds, 20)]
    /\ api_key = TRUE
    /\ max_retries = 1
    /\ batch_size = 1
    /\ DlIdle
    /\ ScoreIdle
    /\ JsonIdle
    /\ RankIdle
    /\ SignalIdle
    /\ runPc = "start"
    /\ date_range = None
    /\ raw_data = <<>>
    /\ validated_data = <<>>
    /\ indicator_inputs = <<>>
    /\ processed_data = <<>>
    /\ todo = <<>>
    /\ all_scores = <<>>
    /\ market_regime = None
    /\ instruments_data = <<>>
    /\ rankings = None
    /\ error_log = {}

NextRun ==
    \/ RunDownload
    \/ RunAbortNoData
    \/ RunValidate
    \/ RunIndicatorStep
    \/ RunStartScoring
    \/ RunScoreStep
    \/ RunDetectRegime
    \/ RunConsolidate

SpecRun == InitRun /\ [][NextRun]_vars

(***************************************************************************)
(* Claims about the orchestrator                                           *)
(***************************************************************************)
\* the symbols for which the run logged a failure at the given stage
FailedAt(stage) == {t \in Range(tickers) : <<stage, t>> \in error_log}

\* the symbols that left the pipeline before scoring
Dropped == FailedAt("fetch") \cup FailedAt("validation") \cup FailedAt("indicators")

\* the symbols whose frame cleaning emptied (every bar non-positive)
Emptied == {t \in DOMAIN validated_data : validated_data[t] = <<>>}

\* C5: failures confined to individual symbols (fetch, validation, indicator
\* error, scoring error) never abort run_full_analysis: the run raises only
\* when no symbol at all was fetched, and a run that returns holds an
\* instrument record for every symbol that was fetched, validated and enriched
\* with at least one bar left, a scoring error leaving the fallback scores in
\* the record; no dropped symbol has a record.
C5_FailuresAreIsolated ==
    /\ runPc = "raised" => FailedAt("fetch") = Range(tickers)
    /\ runPc \notin {"start", "downloaded", "raised"} => FailedAt("fetch") # Range(tickers)
    /\ runPc = "returned" =>
          /\ DOMAIN instruments_data = (Range(tickers) \ Dropped) \ Emptied
          /\ \A t \in DOMAIN instruments_data :
                t \in FailedAt("scoring") => instruments_data[t].scores = FallbackScores

\* a run in which one symbol fails at each of the four stages and which returns
\* with the record of the symbol whose scoring failed
C5_Witness ==
    /\ runPc = "returned"
    /\ FailedAt("fetch") # {}
    /\ FailedAt("validation") # {}
    /\ FailedAt("indicators") # {}
    /\ FailedAt("scoring") # {}
    /\ DOMAIN instruments_data = FailedAt("scoring")

\* C6: when a reference symbol (^VIX or SPY) is missing from the processed set,
\* the returned regime marks the missing symbol's field and market_condition
\* 'unknown'.
C6_MissingReferenceIsUnknown ==
    runPc = "returned" =>
        /\ VIX \notin DOMAIN processed_data =>
              /\ market_regime.vix_regime = "unknown"
              /\ market_regime.market_condition = "unknown"
        /\ SPY \notin DOMAIN processed_data =>
              /\ market_regime.spy_trend = "unknown"
              /\ market_regime.market_condition = "unknown"

\* the bars of today's New York session in a frame
TodayBars(df) == {k \in 1..Len(df) : df[k].Date = today_ny}

WellFormed(r) ==
    Positive(r.Open) /\ Positive(r.High) /\ Positive(r.Low) /\ Positive(r.Close)
    /\ Positive(r.AdjClose)

\* C7: before the closing buffer (market_closed_for_today false) no frame handed
\* to the indicator computation holds the bar of today's session the provider
\* returned; from 16:15 New York time on, that bar is retained.
C7_SessionTrimmed ==
    \A t \in DOMAIN indicator_inputs :
        /\ ~market_closed_for_today => TodayBars(indicator_inputs[t]) = {}
        /\ market_closed_for_today =>
              \A k \in TodayBars(raw_data[t]) :
                  WellFormed(raw_data[t][k]) => TodayBars(indicator_inputs[t]) # {}

\* C8: every frame handed to the indicator computation has at least
\* MIN_REQUIRED_ROWS rows after cleaning; a downloaded frame of MIN_REQUIRED_ROWS
\* well-formed bars is accepted and one of MIN_REQUIRED_ROWS - 1 bars is rejected.
C8_MinRowsReachIndicators ==
    /\ \A t \in DOMAIN indicator_inputs : Len(indicator_inputs[t]) >= MIN_REQUIRED_ROWS
    /\ runPc \notin {"start", "downloaded", "raised"} =>
          \A t \in DOMAIN raw_data :
              /\ Len(raw_data[t]) = MIN_REQUIRED_ROWS - 1 => t \notin DOMAIN validated_data
              /\ (Len(raw_data[t]) = MIN_REQUIRED_ROWS
                    /\ \A k \in 1..Len(raw_data[t]) : WellFormed(raw_data[t][k]))
                 => t \in DOMAIN validated_data

(***************************************************************************)
(* Enriched frames handed to score_instrument.  A frame is described by    *)
(* its row count and by the case of each group of columns; EnrichedFrame   *)
(* builds the columns.  The last close is 100.00 throughout.               *)
(***************************************************************************)
\* an indicator column of n rows
Shape(name, n) ==
    [k \in 1..n |->
        CASE name = "rising" -> 100 + k
          [] name = "falling" -> 100 + n - k
          [] name = "sawtooth" -> 100 + ((k * 7) % 11)
          [] name = "nan_led" -> IF k <= n - 49 THEN NaN ELSE 100 + k
          [] name = "nan_last" -> IF k = n THEN NaN ELSE 100 + k
          [] name = "plateau" -> 100 + ((k + 1) \div 2)]

OptColumn(name, n) == IF name = "absent" THEN None ELSE Some(Shape(name, n))

SmaCases == {"none", "mixed", "above", "below"}

\* the moving averages and ROC_20 of the last row
SmaCells(c) ==
    CASE c = "none" ->
           [SMA_20 |-> NaN, SMA_50 |-> NaN, SMA_125 |-> NaN, SMA_200 |-> NaN, ROC_20 |-> NaN]
      [] c = "mixed" ->
           [SMA_20 |-> 9000, SMA_50 |-> 9500, SMA_125 |-> NaN, SMA_200 |-> 11000, ROC_20 |-> 4]
      [] c = "above" ->
           [SMA_20 |-> 9000, SMA_50 |-> 9100, SMA_125 |-> 9200, SMA_200 |-> 9300,
            ROC_20 |-> 2500]
      [] c = "below" ->
           [SMA_20 |-> 11000, SMA_50 |-> 11100, SMA_125 |-> 11200, SMA_200 |-> 11300,
            ROC_20 |-> 0 - 3000]

AdxCases == {"none", "bull", "flat", "bear"}

\* further positions of the close (100.00) among the price levels
LevelCases == {"breakdown", "daily_low", "daily_high", "nan_week", "on_level"}

\* ADX, the directional indicators and the price levels of the last row
AdxCells(c) ==
    CASE c = "none" ->
           [ADX |-> NaN, plus_DI |-> NaN, minus_DI |-> NaN, prev_week_high |-> NaN,
            prev_week_low |-> NaN, prev_day_high |-> NaN, prev_day_low |-> NaN,
            pivot_point |-> NaN]
      [] c = "bull" ->
           [ADX |-> 6000, plus_DI |-> 3000, minus_DI |-> 2000, prev_week_high |-> 9900,
            prev_week_low |-> 9000, prev_day_high |-> 9950, prev_day_low |-> 9800,
            pivot_point |-> 9900]
      [] c = "flat" ->
           [ADX |-> 4000, plus_DI |-> 2500, minus_DI |-> 2500, prev_week_high |-> 10900,
            prev_week_low |-> 10100, prev_day_high |-> 10800, prev_day_low |-> 10200,
            pivot_point |-> 10500]
      [] c = "bear" ->
           [ADX |-> 1000, plus_DI |-> 1500, minus_DI |-> 3000, prev_week_high |-> 10500,
            prev_week_low |-> 9500, prev_day_high |-> 10200, prev_day_low |-> 9900,
            pivot_point |-> 9950]
      [] c = "breakdown" ->
           [ADX |-> 3000, plus_DI |-> 1500, minus_DI |-> 3000, prev_week_high |-> 10900,
            prev_week_low |-> 10100, prev_day_high |-> 10400, prev_day_low |-> 10200,
            pivot_point |-> 10300]
      [] c = "daily_low" ->
           [ADX |-> 3000, plus_DI |-> 1500, minus_DI |-> 3000, prev_week_high |-> 10900,
            prev_week_low |-> 9900, prev_day_high |-> 10400, prev_day_low |-> 10050,
            pivot_point |-> 9950]
      [] c = "daily_high" ->
           [ADX |-> 3000, plus_DI |-> 3000, minus_DI |-> 1500, prev_week_high |-> 10100,
            prev_week_low |-> 9800, prev_day_high |-> 9990, prev_day_low |-> 9900,
            pivot_point |-> 9950]
      [] c = "nan_week" ->
           [ADX |-> 3000, plus_DI |-> 3000, minus_DI |-> 1500, prev_week_high |-> NaN,
            prev_week_low |-> NaN, prev_day_high |-> 9990, prev_day_low |-> 9900,
            pivot_point |-> 9950]
      [] c = "on_level" ->
           [ADX |-> 3000, plus_DI |-> 3000, minus_DI |-> 1500, prev_week_high |-> 10000,
            prev_week_low |-> 10000, prev_day_high |-> 10000, prev_day_low |-> 10000,
            pivot_point |-> 10000]

MomentumCases == {"blank", "strong", "weak", "nan_led"}

MomentumCells(c) ==
    CASE c = "blank" -> [RSI |-> NaN, ROC_10 |-> NaN, ROC_60 |-> NaN]
      [] c = "strong" -> [RSI |-> 7251, ROC_10 |-> 505, ROC_60 |-> 0 - 1237]
      [] c = "weak" -> [RSI |-> 2000, ROC_10 |-> 0 - 2500, ROC_60 |-> 0 - 4000]
      [] c = "nan_led" -> [RSI |-> 10500, ROC_10 |-> 0, ROC_60 |-> NaN]

MacdShape(c) ==
    CASE c = "blank" -> "absent"
      [] c = "strong" -> "rising"
      [] c = "weak" -> "nan_last"
      [] c = "nan_led" -> "nan_led"

VolatilityCases == {"blank", "calm", "wild", "mid"}

VolatilityCells(c) ==
    CASE c = "blank" -> [HVol_20 |-> NaN, HVol_60 |-> NaN]
      [] c = "calm" -> [HVol_20 |-> 1000, HVol_60 |-> 3000]
      [] c = "wild" -> [HVol_20 |-> 3000, HVol_60 |-> 0]
      [] c = "mid" -> [HVol_20 |-> 2100, HVol_60 |-> 2000]

AtrShape(c) ==
    CASE c = "blank" -> "absent"
      [] c = "calm" -> "falling"
      [] c = "wild" -> "rising"
      [] c = "mid" -> "sawtooth"

BbShape(c) ==
    CASE c = "blank" -> "absent"
      [] c = "calm" -> "sawtooth"
      [] c = "wild" -> "rising"
      [] c = "mid" -> "nan_led"

\* the enriched frame of the scored symbol
EnrichedFrame(in) ==
    [Date |-> [k \in 1..in.n |-> k],
     Close |-> [k \in 1..in.n |-> 10000 + (10 * (k - in.n))],
     MACD_histogram |-> OptColumn(MacdShape(in.momentum), in.n),
     ATR_pct |-> OptColumn(AtrShape(in.volatility), in.n),
     BB_width |-> OptColumn(BbShape(in.volatility), in.n),
     last |-> [Close |-> 10000] @@ SmaCells(in.sma) @@ AdxCells(in.adx)
                @@ MomentumCells(in.momentum) @@ VolatilityCells(in.volatility)]

\* how the benchmark of the scored symbol is configured and what its frame holds
BenchmarkCases ==
    {"Self", "own", "N/A", "missing", "empty", "short", "overlap49", "overlap50", "aligned",
     "surge", "slump"}

ScoredTicker == "XLK"

BenchmarkTicker(c) ==
    CASE c = "Self" -> "Self"
      [] c = "own" -> ScoredTicker
      [] c = "N/A" -> "N/A"
      [] OTHER -> SPY

\* the benchmark's enriched frame: no rows, dates 20, 11 or 10 days ahead of the
\* symbol's, or the symbol's dates with a flat, halving or doubling close
BenchmarkData(c, n) ==
    CASE c = "empty" -> [Date |-> <<>>, Close |-> <<>>]
      [] c = "short" -> [Date |-> [k \in 1..n |-> k + 20], Close |-> [k \in 1..n |-> 40000]]
      [] c = "overlap49" ->
           [Date |-> [k \in 1..n |-> k + 11], Close |-> [k \in 1..n |-> 40000]]
      [] c = "overlap50" ->
           [Date |-> [k \in 1..n |-> k + 10], Close |-> [k \in 1..n |-> 40000]]
      [] c = "surge" ->
           [Date |-> [k \in 1..n |-> k],
            Close |-> [k \in 1..n |-> IF k > n - 10 THEN 20000 ELSE 40000]]
      [] c = "slump" ->
           [Date |-> [k \in 1..n |-> k],
            Close |-> [k \in 1..n |-> IF k > n - 10 THEN 80000 ELSE 40000]]
      [] OTHER -> [Date |-> [k \in 1..n |-> k], Close |-> [k \in 1..n |-> 40000]]

\* the data_dict score_universe passes down
DataDict(in) ==
    IF in.benchmark = "missing" THEN (ScoredTicker :> EnrichedFrame(in))
    ELSE (ScoredTicker :> EnrichedFrame(in)) @@ (SPY :> BenchmarkData(in.benchmark, in.n))

\* frames long enough for every sub-score, in every combination of cases, and
\* frames of 4, 49 and 50 rows around the thresholds of 5 and 50 rows
ScoreInputs ==
    {[n |-> 60, sma |-> a, adx |-> b, momentum |-> c, volatility |-> d, benchmark |-> g] :
        a \in SmaCases, b \in AdxCases, c \in MomentumCases, d \in VolatilityCases,
        g \in BenchmarkCases}
    \cup
    {[n |-> n, sma |-> a, adx |-> b, momentum |-> c, volatility |-> d, benchmark |-> g] :
        n \in {4, 49, 50}, a \in SmaCases, b \in AdxCases, c \in {"strong"}, d \in {"wild"},
        g \in {"Self", "aligned"}}
    \cup
    {[n |-> 60, sma |-> "mixed", adx |-> b, momentum |-> "strong", volatility |-> "wild",
      benchmark |-> "Self"] : b \in LevelCases}

(***************************************************************************)
(* Specification of score_universe for one instrument: score_instrument    *)
(* returns the score set, or raises and the fallback scores are stored     *)
(***************************************************************************)
\* what the scoring of one instrument leaves alone
scoreFrame == <<cfgVars, dlVars, envVars, runVars, jsonVars, rankVars, signalVars>>

SubScoreNames == ScoreNames \ {"composite"}

\* the try blocks that raise during one call: none, one, or all four
FaultSets == {{}} \cup {{x} : x \in SubScoreNames} \cup {SubScoreNames}

ScoreInstrument ==
    /\ scPc = "call"
    /\ \E faults \in FaultSets :
         LET e == EnrichedFrame(sc_input)
             benchmark_ticker == BenchmarkTicker(sc_input.benchmark)
             benchmark_df == BenchmarkFrame(benchmark_ticker, DataDict(sc_input))
         IN  /\ trend_score' = calculate_trend_score(e, "trend" \in faults)
             /\ momentum_score' = calculate_momentum_score(e, "momentum" \in faults)
             /\ volatility_score' = calculate_volatility_score(e, "volatility" \in faults)
             /\ relative_strength_score' =
                    calculate_relative_strength_score(e, benchmark_df, ScoredTicker,
                                                      benchmark_ticker,
                                                      "relative_strength" \in faults)
             /\ sc_faults' = faults
             /\ trend_parts' = IF Len(e.Date) < 5 \/ "trend" \in faults THEN None
                                ELSE Some(trend_components(e.last))
    /\ \E ties \in TieChoices :
         scores' = ScoreSet(trend_score', momentum_score', volatility_score',
                            relative_strength_score', ties)
    /\ scPc' = "scored"
    /\ UNCHANGED <<sc_input, scoreFrame>>

\* score_instrument raises outside the try blocks of the sub-scores
ScoreFallback ==
    /\ scPc = "call"
    /\ scores' = FallbackScores
    /\ scPc' = "fallback"
    /\ UNCHANGED <<sc_input, sc_faults, trend_parts, trend_score, momentum_score,
                   volatility_score, relative_strength_score, scoreFrame>>

InitScore ==
    /\ tickers = <<SPY, ScoredTicker>>
    /\ api_key = TRUE
    /\ max_retries = 1
    /\ batch_size = 1
    /\ DlIdle
    /\ EnvIdle
    /\ RunIdle
    /\ JsonIdle
    /\ RankIdle
    /\ SignalIdle
    /\ scPc = "call"
    /\ sc_input \in ScoreInputs
    /\ sc_faults = {}
    /\ trend_parts = None
    /\ trend_score = None
    /\ momentum_score = None
    /\ volatility_score = None
    /\ relative_strength_score = None
    /\ scores = None

NextScore ==
    \/ ScoreInstrument
    \/ ScoreFallback

SpecScore == InitScore /\ [][NextScore]_vars

(***************************************************************************)
(* Claims about the scoring engine                                         *)
(***************************************************************************)
Scored == scPc \in {"scored", "fallback"}

\* C9: every sub-score and the composite lie in [0, 100], before and after
\* rounding, whatever the frame: NaN or absent indicator columns, fewer than 50
\* rows, a raising try block, and the fallback score set.
C9_ScoresInRange ==
    /\ Scored => \A name \in ScoreNames : 0 <= scores[name] /\ scores[name] <= 10000
    /\ scPc = "scored" =>
          \A x \in {trend_score, momentum_score, volatility_score, relative_strength_score} :
              0 <= x /\ x <= SubPts(100)

\* a frame of 60 rows without moving averages, momentum cells or MACD column
\* whose relative strength exceeds 100 before the clamp
C9_Witness ==
    /\ scPc = "scored"
    /\ sc_input.n = 60
    /\ sc_input.sma = "none"
    /\ sc_input.momentum = "blank"
    /\ sc_input.benchmark = "surge"
    /\ scores.relative_strength = 10000
    /\ scores.trend # 5000

\* the weighted sum of the reported sub-scores, in 1e-4 point
WeightedSum(sc) ==
    (30 * sc.trend) + (30 * sc.momentum) + (15 * (10000 - sc.volatility))
      + (25 * sc.relative_strength)

\* C10: the reported composite is within 0.01 of 0.30 trend + 0.30 momentum
\* + 0.15 (100 - volatility) + 0.25 relative strength of the reported
\* sub-scores, the all-50 fallback included.
C10_WeightIdentity ==
    Scored =>
        /\ (scores.composite * 100) - WeightedSum(scores) <= 100
        /\ WeightedSum(scores) - (scores.composite * 100) <= 100

\* a score set with four different sub-scores where rounding the sub-scores
\* moves the weighted sum away from the reported composite
C10_Witness ==
    /\ scPc = "scored"
    /\ Cardinality({scores.trend, scores.momentum, scores.volatility,
                    scores.relative_strength}) = 4
    /\ scores.volatility # 5000
    /\ scores.composite * 100 # WeightedSum(scores)

\* the benchmark frame score_instrument looks up for the scored symbol
ScoredBenchmark == BenchmarkFrame(BenchmarkTicker(sc_input.benchmark), DataDict(sc_input))

\* rows of the inner join on Date of the scored symbol and its benchmark
AlignedRows ==
    IF ~ScoredBenchmark.some THEN 0
    ELSE Cardinality(Range(EnrichedFrame(sc_input).Date) \cap Range(ScoredBenchmark.val.Date))

\* C14: the relative-strength score is exactly 50 when the configured
\* benchmark is the symbol itself, when the benchmark frame is missing or
\* empty, and when the inner join on Date has fewer than 50 rows; from 50
\* aligned rows on, a call whose computation does not raise returns the value
\* computed from the data (never 50 for the frames explored).
C14_NeutralRelativeStrength ==
    scPc = "scored" =>
        /\ sc_input.benchmark \in {"Self", "own", "N/A", "missing", "empty"}
              => relative_strength_score = SubPts(50)
        /\ AlignedRows < 50 => relative_strength_score = SubPts(50)
        /\ (sc_input.benchmark \notin {"Self", "own", "N/A"} /\ AlignedRows >= 50
              /\ "relative_strength" \notin sc_faults)
              => relative_strength_score # SubPts(50)

\* exactly 50 rows of a 60-row symbol align with its benchmark and the score is
\* the rank 98 of the last ratio plus its 10-bar momentum
C14_Witness ==
    /\ scPc = "scored"
    /\ sc_input.n = 60
    /\ AlignedRows = 50
    /\ "relative_strength" \notin sc_faults
    /\ scores.relative_strength \in {9850, 9851}

(***************************************************************************)
(* Specification of generate_rankings: the score sets of the symbols that  *)
(* reached scoring, in every combination, are ranked                       *)
(***************************************************************************)
\* score sets: two share the composite 70, two the volatility, two the trend
RankSamples ==
    {[composite |-> 7000, trend |-> 6000, momentum |-> 5000, volatility |-> 3000,
      relative_strength |-> 5000],
     [composite |-> 7000, trend |-> 4000, momentum |-> 5550, volatility |-> 6000,
      relative_strength |-> 8000],
     [composite |-> 5000, trend |-> 6000, momentum |-> 2000, volatility |-> 3000,
      relative_strength |-> 5000]}

GenerateRankings ==
    /\ runPc = "rank"
    /\ rankings' = Some(generate_rankings(all_scores))
    /\ runPc' = "ranked"
    /\ UNCHANGED <<date_range, raw_data, validated_data, indicator_inputs, processed_data,
                   todo, all_scores, market_regime, instruments_data, error_log, runFrame>>

InitRank ==
    /\ \E vixPos \in {0, 2} : tickers = MkUniverse(MaxUniverse, vixPos)
    /\ api_key = TRUE
    /\ max_retries = 1
    /\ batch_size = 1
    /\ DlIdle
    /\ EnvIdle
    /\ ScoreIdle
    /\ JsonIdle
    /\ RankIdle
    /\ SignalIdle
    /\ runPc = "rank"
    /\ date_range = None
    /\ raw_data = <<>>
    /\ validated_data = <<>>
    /\ indicator_inputs = <<>>
    /\ processed_data = <<>>
    /\ todo = <<>>
    /\ \E scored \in SUBSET Range(tickers) : all_scores \in [scored -> RankSamples]
    /\ market_regime = None
    /\ instruments_data = <<>>
    /\ rankings = None
    /\ error_log = {}

NextRank == GenerateRankings

SpecRank == InitRank /\ [][NextRank]_vars

\* position of a ticker in the universe's declared order
UniversePos(t) == CHOOSE k \in 1..Len(tickers) : tickers[k] = t

\* r lists every scored ticker once, ordered by the criterion, equal values in
\* the universe's order
RankedBy(r, name, descending) ==
    /\ Len(r) = Cardinality(DOMAIN all_scores)
    /\ Range(r) = DOMAIN all_scores
    /\ \A a, b \in 1..Len(r) :
          a < b =>
             /\ IF descending THEN all_scores[r[a]][name] >= all_scores[r[b]][name]
                ELSE all_scores[r[a]][name] <= all_scores[r[b]][name]
             /\ all_scores[r[a]][name] = all_scores[r[b]][name]
                   => UniversePos(r[a]) < UniversePos(r[b])

\* C11: each of the five rankings is a permutation of the scored tickers, in
\* descending order of its criterion (ascending for volatility), and tickers
\* with equal criterion values keep the universe's declared order.
C11_RankingsSortedStable ==
    rankings.some =>
        /\ RankedBy(rankings.val.by_composite_score, "composite", TRUE)
        /\ RankedBy(rankings.val.by_trend, "trend", TRUE)
        /\ RankedBy(rankings.val.by_momentum, "momentum", TRUE)
        /\ RankedBy(rankings.val.by_volatility, "volatility", FALSE)
        /\ RankedBy(rankings.val.by_relative_strength, "relative_strength", TRUE)

\* composites 50, 70, 70 in universe order: the two 70-scorers come first, in
\* universe order, and the volatility ranking has a tie as well
C11_Witness ==
    /\ runPc = "ranked"
    /\ DOMAIN all_scores = Range(tickers)
    /\ all_scores[tickers[1]].composite = 5000
    /\ all_scores[tickers[2]].composite = 7000
    /\ all_scores[tickers[3]].composite = 7000
    /\ all_scores[tickers[2]].volatility = all_scores[tickers[3]].volatility
    /\ rankings.val.by_composite_score = <<tickers[2], tickers[3], tickers[1]>>

(***************************************************************************)
(* Specification of detect_market_regime: the enriched frames of the two   *)
(* reference symbols, each present, empty or absent, are classified        *)
(***************************************************************************)
\* last closes of the volatility index around VIX_LOW and VIX_MEDIUM
RegimeVixCloses == {12, VIX_LOW - 1, VIX_LOW, VIX_LOW + 1, VIX_MEDIUM - 1, VIX_MEDIUM,
                    VIX_MEDIUM + 1, 30}

VixRows(close) == IF close = 0 THEN <<>> ELSE <<OkRow(today_ny - 2, 20), OkRow(today_ny - 1, close)>>

\* n bars of the broad-equity symbol with adjusted close 100, the last closing
\* at lastClose
SpyRows(n, lastClose) ==
    [k \in 1..n |-> IF k = n THEN Row(k - n, 100, 102, 98, lastClose, 100)
                    ELSE OkRow(k - n, 100)]

\* enriched frames: empty, or two bars of the volatility index
VixFrames == {compute_all_indicators(VixRows(c)) : c \in RegimeVixCloses \cup {0}}

\* enriched frames: empty, or 199, 200 and 201 bars closing under, at and over
\* the adjusted closes the average is taken of
SpyFrames ==
    {compute_all_indicators(SpyRows(n, c)) : n \in {199, 200, 201}, c \in {99, 100, 101}}
    \cup {compute_all_indicators(<<>>)}

\* STEP 5 on its own
DetectMarketRegime ==
    /\ runPc = "regime"
    /\ LET vix_df == IF VIX \in DOMAIN processed_data THEN processed_data[VIX] ELSE EmptyFrame
           spy_df == IF SPY \in DOMAIN processed_data THEN processed_data[SPY] ELSE EmptyFrame
       IN  market_regime' = detect_market_regime(vix_df, spy_df)
    /\ runPc' = "regime_done"
    /\ UNCHANGED <<date_range, raw_data, validated_data, indicator_inputs, processed_data,
                   todo, all_scores, instruments_data, rankings, error_log, runFrame>>

InitRegime ==
    /\ tickers = MkUniverse(2, 2)
    /\ api_key = TRUE
    /\ max_retries = 1
    /\ batch_size = 1
    /\ DlIdle
    /\ EnvIdle
    /\ ScoreIdle
    /\ JsonIdle
    /\ RankIdle
    /\ SignalIdle
    /\ runPc = "regime"
    /\ date_range = None
    /\ raw_data = <<>>
    /\ validated_data = <<>>
    /\ indicator_inputs = <<>>
    /\ \E present \in SUBSET {VIX, SPY} : \E v \in VixFrames : \E p \in SpyFrames :
          processed_data = [t \in present |-> IF t = VIX THEN v ELSE p]
    /\ todo = <<>>
    /\ all_scores = <<>>
    /\ market_regime = None
    /\ instruments_data = <<>>
    /\ rankings = None
    /\ error_log = {}

NextRegime == DetectMarketRegime

SpecRegime == InitRegime /\ [][NextRegime]_vars

\* the frame detect_market_regime received for a reference symbol
RegimeInput(t) == IF t \in DOMAIN processed_data THEN processed_data[t] ELSE EmptyFrame

\* the decision table of market_condition
ConditionTable(vix_regime, spy_trend) ==
    CASE vix_regime = "low" /\ spy_trend = "uptrend" -> "bullish"
      [] vix_regime = "high" /\ spy_trend = "downtrend" -> "bearish"
      [] vix_regime = "high" /\ spy_trend = "uptrend" -> "volatile_bullish"
      [] vix_regime = "low" /\ spy_trend = "downtrend" -> "quiet_bearish"
      [] OTHER -> "neutral"

\* C12: market_condition follows the decision table for every combination of
\* vix_regime and spy_trend (neutral outside the four named pairs); spy_trend is
\* uptrend exactly when the last close of the broad-equity frame is strictly
\* greater than its last SMA_200, downtrend when it is not, and unknown when the
\* last SMA_200 is NaN or the frame is empty.
C12_ConditionTable ==
    runPc = "regime_done" =>
        LET spy == RegimeInput(SPY)
            sma_known == spy.Close # <<>> /\ ~IsNaN(Last(spy.SMA_200))
        IN  /\ market_regime.market_condition =
                  ConditionTable(market_regime.vix_regime, market_regime.spy_trend)
            /\ market_regime.spy_trend = "uptrend" <=>
                  (sma_known /\ Last(spy.Close) > Last(spy.SMA_200))
            /\ market_regime.spy_trend = "downtrend" <=>
                  (sma_known /\ Last(spy.Close) <= Last(spy.SMA_200))
            /\ market_regime.spy_trend = "unknown" <=> ~sma_known

\* a close equal to the 200-bar average under a volatility index below VIX_LOW
C12_Witness ==
    /\ runPc = "regime_done"
    /\ Len(RegimeInput(SPY).Close) = 200
    /\ Last(RegimeInput(SPY).Close) = Last(RegimeInput(SPY).SMA_200)
    /\ market_regime.spy_trend = "downtrend"
    /\ market_regime.market_condition = "quiet_bearish"

\* the classification of the last close of the volatility index
VixClassified(r, level) ==
    /\ r.vix_level = Some(level)
    /\ r.vix_regime = "low" <=> level < VIX_LOW
    /\ r.vix_regime = "medium" <=> (level >= VIX_LOW /\ level < VIX_MEDIUM)
    /\ r.vix_regime = "high" <=> level >= VIX_MEDIUM

Infinity == 999998

NegInfinity == 0 - 999998

Leaf(t, v) == [node |-> "leaf", t |-> t, v |-> v]

DictOf(items) == [node |-> "dict", items |-> items]

ListOf(items) == [node |-> "list", items |-> items]

PyNone == Leaf("NoneType", 0)

PyStr == Leaf("str", 0)

NumpyIntegers == {"np.int64"}

NumpyFloats == {"np.float64"}

\* pd.isna of a scalar
pd_isna(obj) == obj.t = "NoneType" \/ (obj.t \in {"float", "np.float64"} /\ IsNaN(obj.v))

\* the isinstance chain in its order: NumPy integers, NumPy floats, booleans,
\* and only then pd.isna
convert_types(obj) ==
    IF obj.t \in NumpyIntegers THEN Leaf("int", obj.v)
    ELSE IF obj.t \in NumpyFloats THEN Leaf("float", obj.v)
    ELSE IF obj.t \in {"np.bool_", "bool"} THEN Leaf("bool", obj.v)
    ELSE IF pd_isna(obj) THEN PyNone
    ELSE obj

RECURSIVE clean_dict_for_json(_)
clean_dict_for_json(data) ==
    IF data.node = "dict"
    THEN DictOf([k \in DOMAIN data.items |-> clean_dict_for_json(data.items[k])])
    ELSE IF data.node = "list"
    THEN ListOf([k \in DOMAIN data.items |-> clean_dict_for_json(data.items[k])])
    ELSE convert_types(data)

\* the leaves of a value
RECURSIVE Leaves(_)
Leaves(data) ==
    IF data.node = "leaf" THEN {data}
    ELSE UNION {Leaves(data.items[k]) : k \in DOMAIN data.items}

\* what json.dumps writes for a native leaf (allow_nan is left at True)
JsonToken(obj) ==
    CASE obj.t = "NoneType" -> Leaf("null", 0)
      [] obj.t = "bool" -> Leaf("boolean", obj.v)
      [] obj.t = "str" -> Leaf("string", 0)
      [] obj.t = "int" -> Leaf("number", obj.v)
      [] obj.t = "float" ->
           IF IsNaN(obj.v) THEN Leaf("NaN", obj.v)
           ELSE IF obj.v = Infinity THEN Leaf("Infinity", obj.v)
           ELSE IF obj.v = NegInfinity THEN Leaf("-Infinity", obj.v)
           ELSE Leaf("number", obj.v)

RECURSIVE Emit(_)
Emit(data) ==
    IF data.node = "dict" THEN DictOf([k \in DOMAIN data.items |-> Emit(data.items[k])])
    ELSE IF data.node = "list" THEN ListOf([k \in DOMAIN data.items |-> Emit(data.items[k])])
    ELSE JsonToken(data)

NativeTypes == {"NoneType", "bool", "str", "int", "float"}

\* json.dumps raises TypeError on a value that is not of a native type
json_dumps(data) ==
    IF \A obj \in Leaves(data) : obj.t \in NativeTypes THEN Some(Emit(data)) ELSE None

\* {"error": "JSON generation failed: ..."}
ErrorReport == DictOf([error |-> Leaf("string", 0)])

generate_json_report(result) ==
    LET report_data ==
            DictOf([market_regime |-> result.items.market_regime,
                    instruments |-> result.items.instruments,
                    rankings |-> result.items.rankings,
                    notable_events |-> IF "notable_events" \in DOMAIN result.items
                                       THEN result.items.notable_events ELSE ListOf(<<>>)])
        json_string_ == json_dumps(clean_dict_for_json(report_data))
    IN  IF json_string_.some THEN json_string_.val ELSE ErrorReport

(***************************************************************************)
(* Analysis results handed to generate_json_report.  The leaves have the   *)
(* types consolidate_instrument_data, detect_market_regime and             *)
(* score_instrument give them; notable_events is whatever the caller added.*)
(***************************************************************************)
\* float(last.get(...)): a Python float, NaN when the cell is
PyFloats == {Leaf("float", 4250), Leaf("float", NaN)}

\* every kind of scalar
AnyLeaf ==
    {Leaf(t, v) : t \in {"float", "np.float64"}, v \in {4250, NaN, Infinity, NegInfinity}}
    \cup {Leaf(t, 7) : t \in {"int", "np.int64"}}
    \cup {Leaf(t, v) : t \in {"bool", "np.bool_"}, v \in {0, 1}}
    \cup {PyNone, PyStr}

AnalysisResult(vix_level, spy_above_sma200, rsi_14, sma_200_dist, composite, event) ==
    DictOf([metadata |-> DictOf([instruments_analyzed |-> Leaf("int", 1)]),
            market_regime |->
                DictOf([vix_level |-> vix_level,
                        vix_regime |-> PyStr,
                        spy_above_sma200 |-> spy_above_sma200]),
            instruments |->
                DictOf([XLK |->
                    DictOf([current |-> DictOf([price |-> Leaf("float", 10000),
                                                volume |-> Leaf("int", 7)]),
                            indicators |-> DictOf([rsi_14 |-> rsi_14,
                                                   sma_200_dist |-> sma_200_dist]),
                            scores |-> DictOf([composite |-> composite]),
                            signals |-> ListOf(<<PyStr>>)])]),
            rankings |->
                DictOf([by_composite_score |->
                    ListOf(<<DictOf([ticker |-> PyStr, composite |-> composite])>>)]),
            notable_events |-> ListOf(<<event>>)])

AnalysisResults ==
    {AnalysisResult(a, b, c, d, e, f) :
        a \in {PyNone, Leaf("float", 1450)},
        b \in {PyNone, Leaf("np.bool_", 0), Leaf("np.bool_", 1)},
        c \in PyFloats,
        d \in {PyNone, Leaf("np.float64", 250)},
        e \in {Leaf("float", 5000), Leaf("np.float64", 6123)},
        f \in AnyLeaf}

\* what the report layer leaves alone
jsonFrame == <<cfgVars, dlVars, envVars, runVars, scoreVars, rankVars, signalVars>>

GenerateJsonReport ==
    /\ jsPc = "call"
    /\ json_string' = Some(generate_json_report(analysis_result.val))
    /\ jsPc' = "returned"
    /\ UNCHANGED <<analysis_result, jsonFrame>>

InitJson ==
    /\ tickers = <<SPY, ScoredTicker>>
    /\ api_key = TRUE
    /\ max_retries = 1
    /\ batch_size = 1
    /\ DlIdle
    /\ EnvIdle
    /\ RunIdle
    /\ ScoreIdle
    /\ RankIdle
    /\ SignalIdle
    /\ jsPc = "call"
    /\ \E result \in AnalysisResults : analysis_result = Some(result)
    /\ json_string = None

NextJson == GenerateJsonReport

SpecJson == InitJson /\ [][NextJson]_vars

\* the leaves of the analysis result that go into the report
ReportedLeaves ==
    UNION {Leaves(analysis_result.val.items[k]) :
               k \in {"market_regime", "instruments", "rankings", "notable_events"}}

MaxBars == 7

PricePatterns == {"rising", "falling", "zigzag"}

BarKinds == {"ok", "adjusted", "inverted", "zero"}

PatternPrice(pattern, k) ==
    CASE pattern = "rising" -> 20 + 2 * k
      [] pattern = "falling" -> 40 - 2 * k
      [] OTHER -> 20 + 4 * (k % 2)

\* a provider bar: well formed, with an adjusted close below the day's range,
\* with high and low exchanged, or with a zero open
ProviderBar(date, px, kind) ==
    CASE kind = "adjusted" -> Row(date, px, px + 1, px - 1, px, px \div 2)
      [] kind = "inverted" -> Row(date, px, px - 1, px + 1, px, px)
      [] kind = "zero" -> Row(date, 0, px + 1, px - 1, px, px)
      [] OTHER -> OkRow(date, px)

\* n bars whose first z bars traded no volume and whose last bar is of the given kind
ProviderSeries(n, pattern, z, kind) ==
    [k \in 1..n |->
        WithVolume(ProviderBar(k - n, PatternPrice(pattern, k), IF k = n THEN kind ELSE "ok"),
                   IF k <= z THEN 0 ELSE 500)]

ProviderFrames ==
    {ProviderSeries(n, pattern, z, kind) :
        n \in 1..MaxBars, pattern \in PricePatterns, z \in 0..MaxBars, kind \in BarKinds}

InitIndicators ==
    /\ tickers = MkUniverse(2, 2)
    /\ api_key = TRUE
    /\ max_retries = 1
    /\ batch_size = 1
    /\ DlIdle
    /\ EnvIdle
    /\ ScoreIdle
    /\ JsonIdle
    /\ RankIdle
    /\ SignalIdle
    /\ runPc = "downloaded"
    /\ date_range = None
    /\ \E df \in ProviderFrames : raw_data = (SPY :> df)
    /\ validated_data = <<>>
    /\ indicator_inputs = <<>>
    /\ processed_data = <<>>
    /\ todo = <<>>
    /\ all_scores = <<>>
    /\ market_regime = None
    /\ instruments_data = <<>>
    /\ rankings = None
    /\ error_log = {}

NextIndicators == RunValidate \/ RunIndicatorStep

SpecIndicators == InitIndicators /\ [][NextIndicators]_vars

DerivedColumns ==
    {"prev_day_high", "prev_week_high", "pivot_point", "SMA_200", "ATR", "return_1d",
     "Volume_ratio", "OBV"}

\* the cell of a derived column at a row: None when the frame has no such column
Cell(frame, col, row) ==
    IF col \notin frame.columns THEN None
    ELSE Some(CASE col = "prev_day_high" -> frame.prev_day_high[row]
                [] col = "prev_week_high" -> frame.prev_week_high[row]
                [] col = "pivot_point" -> frame.pivot_point[row]
                [] col = "SMA_200" -> frame.SMA_200[row]
                [] col = "ATR" -> frame.ATR[row]
                [] col = "return_1d" -> frame.return_1d[row]
                [] col = "Volume_ratio" -> frame.Volume_ratio[row]
                [] col = "OBV" -> frame.OBV[row])

\* C16: every derived column of compute_all_indicators has, at every row i,
\* the cell it has when the rows after i are truncated from the input
C16_NoLookAhead ==
    \A t \in DOMAIN processed_data :
        LET df == indicator_inputs[t]
        IN  \A row \in 1..Len(df) : \A col \in DerivedColumns :
                Cell(processed_data[t], col, row)
                    = Cell(compute_all_indicators(SubSeq(df, 1, row)), col, row)


\* C20: in every enriched series each bar has its high at or above its open,
\* close and low, its low at or below its open, close and high (the close
\* being the adjusted close the indicators are computed on), strictly
\* positive prices, and the dates ascend
C20_OhlcConsistent ==
    \A t \in DOMAIN processed_data :
        LET bars == processed_data[t].rows
        IN  /\ \A k \in 1..Len(bars) :
                  /\ bars[k].High >= Max(bars[k].Open, Max(bars[k].AdjClose, bars[k].Low))
                  /\ bars[k].Low <= Min(bars[k].Open, Min(bars[k].AdjClose, bars[k].High))
                  /\ Positive(bars[k].Open) /\ Positive(bars[k].High)
                  /\ Positive(bars[k].Low) /\ Positive(bars[k].AdjClose)
            /\ \A k \in 1..(Len(bars) - 1) : bars[k].Date <= bars[k + 1].Date


\* C17: while any symbol has a score, the indicator computation of every
\* validated symbol has been attempted, and the enriched-series map never
\* changes once a symbol has been scored or while one is being scored
C17_IndicatorBarrier ==
    /\ [](DOMAIN all_scores # {} => DOMAIN indicator_inputs = DOMAIN validated_data)
    /\ [][(DOMAIN all_scores' # {}) => processed_data' = processed_data]_vars

\* two symbols enriched, a third whose indicators raised, and scores recorded
C17_Witness ==
    /\ runPc = "scoring"
    /\ DOMAIN all_scores # {}
    /\ Cardinality(DOMAIN processed_data) >= 2
    /\ \E t \in DOMAIN validated_data : <<"indicators", t>> \in error_log


\* C18: at least REQUEST_DELAY_MIN seconds lie between any provider-A request
\* of a universe fetch and the provider-A request before it, whether the two
\* are attempts for one symbol or requests for successive symbols
C18_InterRequestDelay ==
    pacing.gap.some => pacing.gap.val >= REQUEST_DELAY_MIN


\* C19: between iterations of the universe fetch, the batch delay has been
\* slept once after exactly those finished iterations k that are a positive
\* multiple of BATCH_SIZE and are not the last, whatever the outcome of the
\* k-th fetch (a frame, nothing, or an exception)
C19_BatchPauses ==
    dlPc \in {"loop", "returned"} =>
        /\ Range(batch_pauses) = {k \in 1..i : k % batch_size = 0 /\ k < total_tickers}
        /\ Len(batch_pauses) = Cardinality(Range(batch_pauses))


\* the number of the attempt whose outcome is the k-th event of the log
AttemptAt(log, k) == Cardinality({j \in 1..k : log[j].kind = "http"})

\* C21: every backoff wait of a provider-A request follows a failed attempt
\* number a and lasts 2^a seconds after a status >= 500 or a timeout and 60*a
\* seconds after a 429, and a retry follows it: once the request is over, no
\* wait is the last event of its log
C21_BackoffSchedule ==
    \A k \in 1..Len(call_log) :
        call_log[k].kind = "sleep" =>
            /\ k > 1 /\ call_log[k - 1].kind = "http"
            /\ call_log[k - 1].outcome \in Retryable
            /\ call_log[k].secs = IF call_log[k - 1].outcome = "429"
                                  THEN 60 * AttemptAt(call_log, k)
                                  ELSE 2 ^ AttemptAt(call_log, k)
            /\ FetchOver => k < Len(call_log)


\* the last row of the frame being scored
ScoredLast == EnrichedFrame(sc_input).last

Sign(x) == IF x > 0 THEN 1 ELSE IF x < 0 THEN 0 - 1 ELSE 0

\* C24: the ADX-direction component is clamp(50 + (min(ADX, 50) - 25) * 2 *
\* sign(+DI - -DI), 0, 100) with sign(0) = 0 and missing cells replaced by
\* ADX = 20, +DI = -DI = 50: it is 50 whenever +DI equals -DI
C24_AdxDirection ==
    (scPc = "scored" /\ trend_parts.some) =>
        LET adx == OrDefault(ScoredLast.ADX, 2000)
            plus_di == OrDefault(ScoredLast.plus_DI, 5000)
            minus_di == OrDefault(ScoredLast.minus_DI, 5000)
            claimed == 5000 + ((Min(adx, 5000) - 2500) * 2 * Sign(plus_di - minus_di))
        IN  /\ trend_parts.val.adx_comp_score = Max(0, Min(10000, claimed)) * 10
            /\ plus_di = minus_di => trend_parts.val.adx_comp_score = Pts(50)

\* the rules of the pattern component, in the order they are tried
PatternRules ==
    <<[level |-> "prev_week_low", below |-> TRUE, points |-> 0],
      [level |-> "prev_day_low", below |-> TRUE, points |-> 25],
      [level |-> "prev_week_high", below |-> FALSE, points |-> 100],
      [level |-> "prev_day_high", below |-> FALSE, points |-> 75],
      [level |-> "pivot_point", below |-> FALSE, points |-> 60]>>

LevelOf(last, name) ==
    CASE name = "prev_week_low" -> last.prev_week_low
      [] name = "prev_day_low" -> last.prev_day_low
      [] name = "prev_week_high" -> last.prev_week_high
      [] name = "prev_day_high" -> last.prev_day_high
      [] name = "pivot_point" -> last.pivot_point

RuleMatches(last, rule) ==
    LET level == LevelOf(last, rule.level)
    IN  /\ ~IsNaN(level)
        /\ IF rule.below THEN last.Close < level ELSE last.Close > level

Ranked(ranking) == {ranking[k] : k \in 1..Len(ranking)}

\* C29: in a returned result each of the five rankings lists exactly the
\* tickers that have an instrument record
C29_RankedIffRecorded ==
    runPc = "returned" =>
        LET r == rankings.val
        IN  \A ranking \in {r.by_composite_score, r.by_trend, r.by_momentum, r.by_volatility,
                            r.by_relative_strength} :
                Ranked(ranking) = DOMAIN instruments_data


(***************************************************************************)
(* The MACD-histogram rank of calculate_momentum_score                     *)
(***************************************************************************)
rankFrame == <<cfgVars, dlVars, envVars, runVars, scoreVars, jsonVars, signalVars>>

\* macd_rank = rolling_percentile_rank(df['MACD_hist'], 252).iloc[-1]
RankHistogram ==
    /\ prPc = "call"
    /\ pr_rank' = Some(rolling_percentile_rank(pr_series, 252))
    /\ prPc' = "ranked"
    /\ UNCHANGED <<pr_series, macd_rank, rankFrame>>

\* if pd.isna(macd_rank): macd_rank = 50.0
RankDefault ==
    /\ prPc = "ranked"
    /\ macd_rank' = Some(RankOrNeutral(Some(pr_series)))
    /\ prPc' = "done"
    /\ UNCHANGED <<pr_series, pr_rank, rankFrame>>

\* histogram lengths around the 50-observation minimum and the 252 window
HistogramLengths == {1, 49, 50, 51, 100, 251, 252, 253, 300}

HistogramShapes == {"rising", "falling", "sawtooth", "nan_led", "nan_last", "plateau"}

InitRank252 ==
    /\ tickers = <<SPY>>
    /\ api_key = TRUE
    /\ max_retries = 1
    /\ batch_size = 1
    /\ DlIdle
    /\ EnvIdle
    /\ RunIdle
    /\ ScoreIdle
    /\ JsonIdle
    /\ SignalIdle
    /\ prPc = "call"
    /\ \E n \in HistogramLengths, shape \in HistogramShapes : pr_series = Shape(shape, n)
    /\ pr_rank = None
    /\ macd_rank = None

NextRank252 == RankHistogram \/ RankDefault

SpecRank252 == InitRank252 /\ [][NextRank252]_vars

\* the window of the last bar and the values before the current one
LastWindow == SubSeq(pr_series, Max(1, Len(pr_series) - 251), Len(pr_series))

Observations == Cardinality({k \in 1..Len(LastWindow) : ~IsNaN(LastWindow[k])})

PriorBelow ==
    Cardinality({k \in 1..(Len(LastWindow) - 1) :
                     ~IsNaN(LastWindow[k]) /\ ~IsNaN(Last(LastWindow))
                         /\ LastWindow[k] < Last(LastWindow)})

\* C22 as stated: with at least 50 observations in the window the rank is 100
\* times the fraction of the prior window values (the current value left out
\* of the population) strictly below the current value; with fewer it is NaN
\* and the momentum score takes 50
C22_RankOverPriorValues ==
    /\ pr_rank.some =>
           IF Observations >= 50
           THEN pr_rank.val = (PriorBelow * Pts(100)) \div (Len(LastWindow) - 1)
           ELSE IsNaN(pr_rank.val)
    /\ (macd_rank.some /\ Observations < 50) => macd_rank.val = Pts(50)

\* C22: with at least 50 observations in the window the rank is 100 times the
\* fraction of the whole window, current value included, that is strictly
\* below the current value; with fewer it is NaN and the momentum score
\* takes 50
C22_RankOverWindow ==
    /\ pr_rank.some =>
           IF Observations >= 50
           THEN pr_rank.val = (PriorBelow * Pts(100)) \div Len(LastWindow)
           ELSE IsNaN(pr_rank.val)
    /\ (macd_rank.some /\ Observations < 50) => macd_rank.val = Pts(50)


C22_Witness ==
    /\ macd_rank.some
    /\ Len(pr_series) = 50
    /\ PriorBelow = 49
    /\ pr_rank.val = Pts(98)
    /\ macd_rank.val = Pts(98)

Increasing(col) ==
    \A k \in 1..Len(col) : ~IsNaN(col[k]) /\ (k > 1 => col[k - 1] < col[k])

Decreasing(col) ==
    \A k \in 1..Len(col) : ~IsNaN(col[k]) /\ (k > 1 => col[k - 1] > col[k])

\* C23 as stated: for a monotonically increasing histogram the rank over 252
\* at the last bar is 0
C23_RisingRanksZero ==
    (pr_rank.some /\ Increasing(pr_series) /\ Len(pr_series) >= 50) => pr_rank.val = 0

\* C23: for a monotonically increasing histogram of m bars in the window
\* (50 <= m <= 252) the rank at the last bar is 100 * (m - 1) / m, 99.6 for a
\* full window; the rank is 0 for a monotonically decreasing histogram
C23_RisingRanksHigh ==
    (pr_rank.some /\ Len(pr_series) >= 50) =>
        /\ Increasing(pr_series) =>
               pr_rank.val = ((Len(LastWindow) - 1) * Pts(100)) \div Len(LastWindow)
        /\ Decreasing(pr_series) => pr_rank.val = 0

C23_Witness ==
    /\ pr_rank.some
    /\ Increasing(pr_series)
    /\ Len(pr_series) > 252
    /\ pr_rank.val = 99603


(***************************************************************************)
(* market_analysis.generate_signals and the key levels of                  *)
(* consolidate_instrument_data.  Prices are in hundredths, indicator cells *)
(* in hundredths, gaps and band distances in hundredths of a percent.      *)
(***************************************************************************)
RSI_EXTREME_OB == 8000

RSI_OVERBOUGHT == 7000

RSI_EXTREME_OS == 2000

RSI_OVERSOLD == 3000

BB_BREAKOUT == 0

VOLUME_SURGE == 200

\* a fraction of the previous close, in hundredths
GAP_THRESHOLD == 2

ADX_STRONG_TREND == 2500

\* a > b and a < b are False when an operand is NaN
NumGt(a, b) == ~IsNaN(a) /\ ~IsNaN(b) /\ a > b

NumLt(a, b) == ~IsNaN(a) /\ ~IsNaN(b) /\ a < b

\* series.max() and series.min() of a column without NaN
ColMax(col) == CHOOSE x \in {col[k] : k \in 1..Len(col)} : \A k \in 1..Len(col) : col[k] <= x

ColMin(col) == CHOOSE x \in {col[k] : k \in 1..Len(col)} : \A k \in 1..Len(col) : col[k] >= x

\* series.iloc[-6:-1]: up to five rows before the last one
Iloc_6_1(col) == SubSeq(col, Max(1, Len(col) - 5), Len(col) - 1)

\* f"{x:.1f}" of a value in hundredths: the value in tenths
Tenths(x) == IF x >= 0 THEN (x + 5) \div 10 ELSE 0 - ((5 - x) \div 10)

\* a signal text, with the number it shows if any
Signal(name) == [name |-> name, shown |-> None]

SignalOf(name, x) == [name |-> name, shown |-> Some(Tenths(x))]

\* what one rule of the try block did: the signals it appended, and whether
\* it raised
Appended(out) == [raised |-> FALSE, out |-> out]

Raised(out) == [raised |-> TRUE, out |-> out]

\* 1. price breakout: the close against the high and low of iloc[-6:-1]
weekly_levels(f) ==
    [prev_week_high |-> ColMax(Iloc_6_1(Column(f.rows, "High"))),
     prev_week_low |-> ColMin(Iloc_6_1(Column(f.rows, "Low")))]

breakout_rule(f) ==
    IF "High" \notin f.columns THEN Appended(<<>>)
    ELSE IF "Close" \notin f.columns THEN Raised(<<>>)
    ELSE LET above == IF NumGt(f.last.Close, weekly_levels(f).prev_week_high)
                      THEN <<Signal("Breaking above weekly high")>> ELSE <<>>
         IN  IF "Low" \notin f.columns THEN Raised(above)
             ELSE Appended(above \o
                      (IF NumLt(f.last.Close, weekly_levels(f).prev_week_low)
                       THEN <<Signal("Breaking below weekly low")>> ELSE <<>>))

\* the plain tiers tested before the extreme ones
rsi_rule_PlainFirst(f) ==
    IF "RSI" \notin f.columns \/ IsNaN(f.last.RSI) THEN Appended(<<>>)
    ELSE LET rsi == f.last.RSI
         IN  Appended(IF rsi >= RSI_OVERBOUGHT THEN <<SignalOf("RSI Overbought", rsi)>>
                      ELSE IF rsi >= RSI_EXTREME_OB
                          THEN <<SignalOf("RSI Extremely Overbought", rsi)>>
                      ELSE IF rsi <= RSI_OVERSOLD THEN <<SignalOf("RSI Oversold", rsi)>>
                      ELSE IF rsi <= RSI_EXTREME_OS
                          THEN <<SignalOf("RSI Extremely Oversold", rsi)>>
                      ELSE <<>>)

\* 2. RSI: the first tier of the if/elif chain that applies
rsi_rule(f) ==
    IF "RSI" \notin f.columns \/ IsNaN(f.last.RSI) THEN Appended(<<>>)
    ELSE LET rsi == f.last.RSI
         IN  Appended(IF rsi >= RSI_EXTREME_OB
                          THEN <<SignalOf("RSI Extremely Overbought", rsi)>>
                      ELSE IF rsi >= RSI_OVERBOUGHT THEN <<SignalOf("RSI Overbought", rsi)>>
                      ELSE IF rsi <= RSI_EXTREME_OS
                          THEN <<SignalOf("RSI Extremely Oversold", rsi)>>
                      ELSE IF rsi <= RSI_OVERSOLD THEN <<SignalOf("RSI Oversold", rsi)>>
                      ELSE <<>>)

\* 3. Bollinger bands: the close beyond a band by more than BB_BREAKOUT
bollinger_rule(f) ==
    IF ~({"BB_upper", "BB_lower", "Close"} \subseteq f.columns) THEN Appended(<<>>)
    ELSE IF IsNaN(f.last.BB_upper) \/ IsNaN(f.last.BB_lower) THEN Appended(<<>>)
    ELSE IF f.last.Close > f.last.BB_upper
         THEN Appended(IF ((f.last.Close - f.last.BB_upper) * 10000) \div f.last.BB_upper
                              > BB_BREAKOUT
                       THEN <<Signal("BB Upper Breakout")>> ELSE <<>>)
    ELSE IF f.last.Close < f.last.BB_lower
         THEN Appended(IF ((f.last.BB_lower - f.last.Close) * 10000) \div f.last.BB_lower
                              > BB_BREAKOUT
                       THEN <<Signal("BB Lower Breakout")>> ELSE <<>>)
    ELSE Appended(<<>>)

\* a cast of the ratio to int in place of the NaN guard: int(nan) raises
volume_rule_IntCast(f) ==
    IF "Volume_ratio" \notin f.columns THEN Appended(<<>>)
    ELSE IF IsNaN(f.last.Volume_ratio) THEN Raised(<<>>)
    ELSE Appended(IF f.last.Volume_ratio > VOLUME_SURGE
                  THEN <<SignalOf("Volume Surge", f.last.Volume_ratio)>> ELSE <<>>)

\* 4. volume surge
volume_rule(f) ==
    IF "Volume_ratio" \notin f.columns \/ IsNaN(f.last.Volume_ratio) THEN Appended(<<>>)
    ELSE Appended(IF f.last.Volume_ratio > VOLUME_SURGE
                  THEN <<SignalOf("Volume Surge", f.last.Volume_ratio)>> ELSE <<>>)

\* ((last['Open'] - prev['Close']) / prev['Close']) * 100
gap_pct(f) ==
    LET diff == (f.last.Open - f.prev.Close) * 10000
    IN  IF diff >= 0 THEN diff \div f.prev.Close ELSE 0 - ((0 - diff) \div f.prev.Close)

\* 5. gap of the open against the previous close
gap_rule(f) ==
    IF ~({"Open", "Close"} \subseteq f.columns) THEN Appended(<<>>)
    ELSE IF Abs(gap_pct(f)) > GAP_THRESHOLD * 100
         THEN Appended(IF gap_pct(f) > 0 THEN <<SignalOf("Gap Up", gap_pct(f))>>
                       ELSE <<SignalOf("Gap Down", gap_pct(f))>>)
    ELSE Appended(<<>>)

\* a crossing of fast over slow between the previous and the last row
Crossing(f, fast, slow, up, down) ==
    IF ~({fast, slow} \subseteq f.columns) THEN Appended(<<>>)
    ELSE IF IsNaN(f.last[fast]) \/ IsNaN(f.last[slow]) \/ IsNaN(f.prev[fast])
               \/ IsNaN(f.prev[slow])
         THEN Appended(<<>>)
    ELSE IF f.prev[fast] < f.prev[slow] /\ f.last[fast] > f.last[slow]
         THEN Appended(<<Signal(up)>>)
    ELSE IF f.prev[fast] > f.prev[slow] /\ f.last[fast] < f.last[slow]
         THEN Appended(<<Signal(down)>>)
    ELSE Appended(<<>>)

\* 6. MACD crossover
macd_rule(f) ==
    Crossing(f, "MACD", "MACD_signal", "MACD Bullish Crossover", "MACD Bearish Crossover")

\* 7. golden and death cross
sma_rule(f) ==
    Crossing(f, "SMA_50", "SMA_200", "Golden Cross (SMA50 > SMA200)",
             "Death Cross (SMA50 < SMA200)")

\* 8. ADX strong trend
adx_rule(f) ==
    IF "ADX" \notin f.columns \/ IsNaN(f.last.ADX) THEN Appended(<<>>)
    ELSE Appended(IF f.last.ADX > ADX_STRONG_TREND
                  THEN <<SignalOf("Strong Trend", f.last.ADX)>> ELSE <<>>)

\* the try block: the rules run in order, a rule that raises ends the block
\* and the signals appended so far are returned
RECURSIVE TryRules(_, _)
TryRules(rules, acc) ==
    IF rules = <<>> THEN acc
    ELSE IF Head(rules).raised THEN acc \o Head(rules).out
    ELSE TryRules(Tail(rules), acc \o Head(rules).out)

generate_signals(f) ==
    IF Len(f.rows) < 5 THEN <<>>
    ELSE TryRules(<<breakout_rule(f), rsi_rule(f), bollinger_rule(f), volume_rule(f),
                    gap_rule(f), macd_rule(f), sma_rule(f), adx_rule(f)>>, <<>>)

\* key_levels of consolidate_instrument_data: the previous bar, and iloc[-6:-1]
\* once there are six rows
key_levels_of(f) ==
    LET n == Len(f.rows)
        day == IF n >= 5 /\ n >= 2
               THEN [prev_day_high |-> f.rows[n - 1].High, prev_day_low |-> f.rows[n - 1].Low]
               ELSE <<>>
        week == IF n >= 5 /\ n >= 6
                THEN [prev_week_high |-> ColMax(Iloc_6_1(Column(f.rows, "High"))),
                      prev_week_low |-> ColMin(Iloc_6_1(Column(f.rows, "Low")))]
                ELSE <<>>
    IN  day @@ week


\* series.rolling(window=w).min(): NaN until w observations are in the window
RollingMin(col, w) ==
    [k \in 1..Len(col) |->
        IF k < w THEN NaN
        ELSE LET win == SubSeq(col, k - w + 1, k)
             IN  IF \E j \in 1..w : IsNaN(win[j]) THEN NaN
                 ELSE CHOOSE x \in {win[j] : j \in 1..w} : \A j \in 1..w : win[j] >= x]

\* df['Low'].shift(1).rolling(window=5).min()
prev_week_low(df) == RollingMin(Shift(Column(df, "Low"), 1), 5)

HistoryCases == {"flat", "fading"}

LastBarCases == {"inside", "breakout", "breakdown", "testing", "gap_up", "gap_down"}

\* bar k of n: the history has a constant range or one that narrows towards
\* the last bar; the last bar sits inside, beyond or on the earlier range
SignalBar(k, n, history, lastbar) ==
    LET d == k - n
        spread == IF history = "flat" THEN 1 ELSE (n - k) * 10
    IN  IF k < n THEN Row(d, 10000, 10000 + spread, 10000 - spread, 10000, 10000)
        ELSE CASE lastbar = "inside" -> Row(d, 10000, 10000, 10000, 10000, 10000)
               [] lastbar = "breakout" -> Row(d, 10000, 10500, 10000, 10400, 10400)
               [] lastbar = "breakdown" -> Row(d, 10000, 10000, 9500, 9600, 9600)
               [] lastbar = "testing" -> Row(d, 10000, 10001, 9999, 10000, 10000)
               [] lastbar = "gap_up" -> Row(d, 10300, 10300, 10300, 10300, 10300)
               [] lastbar = "gap_down" -> Row(d, 9700, 9700, 9700, 9700, 9700)

SignalBars(n, history, lastbar) == [k \in 1..n |-> SignalBar(k, n, history, lastbar)]

CellCases == {"quiet", "active", "bearish", "no_volume", "nan_bb", "nan_volume", "nan_macd",
              "nan_sma", "nan_adx"}

RsiCells == {NaN, 1000, 2000, 2500, 3000, 5000, 7000, 7500, 8000, 8500}

IndicatorColumns == {"RSI", "BB_upper", "BB_lower", "Volume_ratio", "MACD", "MACD_signal",
                     "SMA_50", "SMA_200", "ADX"}

ActiveLast ==
    [BB_upper |-> 9400, BB_lower |-> 9300, Volume_ratio |-> 250, MACD |-> 30,
     MACD_signal |-> 20, SMA_50 |-> 9200, SMA_200 |-> 9100, ADX |-> 3000]

ActivePrev == [MACD |-> 10, MACD_signal |-> 20, SMA_50 |-> 9000, SMA_200 |-> 9100]

\* the indicator cells of the last and the previous row
SignalCells(c, rsi) ==
    LET last ==
            CASE c = "quiet" ->
                   [BB_upper |-> NaN, BB_lower |-> NaN, Volume_ratio |-> NaN, MACD |-> NaN,
                    MACD_signal |-> NaN, SMA_50 |-> NaN, SMA_200 |-> NaN, ADX |-> NaN]
              [] c = "bearish" ->
                   [BB_upper |-> 10900, BB_lower |-> 10800, Volume_ratio |-> 200, MACD |-> 10,
                    MACD_signal |-> 20, SMA_50 |-> 9000, SMA_200 |-> 9100, ADX |-> 2500]
              [] c = "nan_bb" -> [ActiveLast EXCEPT !.BB_upper = NaN]
              [] c = "nan_volume" -> [ActiveLast EXCEPT !.Volume_ratio = NaN]
              [] c = "nan_sma" -> [ActiveLast EXCEPT !.SMA_200 = NaN]
              [] c = "nan_adx" -> [ActiveLast EXCEPT !.ADX = NaN]
              [] OTHER -> ActiveLast
        prev ==
            CASE c = "quiet" -> [MACD |-> NaN, MACD_signal |-> NaN, SMA_50 |-> NaN,
                                 SMA_200 |-> NaN]
              [] c = "bearish" -> [MACD |-> 30, MACD_signal |-> 20, SMA_50 |-> 9200,
                                   SMA_200 |-> 9100]
              [] c = "nan_macd" -> [ActivePrev EXCEPT !.MACD = NaN]
              [] OTHER -> ActivePrev
    IN  [columns |-> IF c = "no_volume" THEN IndicatorColumns \ {"Volume_ratio"}
                     ELSE IndicatorColumns,
         last |-> [RSI |-> rsi] @@ last,
         prev |-> prev]

\* the frames of the signal step: the bars vary with neutral RSI, or the
\* indicator cells vary over six quiet bars
SignalInputs ==
    {[rows |-> SignalBars(n, history, lastbar), cells |-> "active", rsi |-> 5000] :
         n \in 4..7, history \in HistoryCases, lastbar \in LastBarCases}
    \cup {[rows |-> SignalBars(6, "flat", "inside"), cells |-> c, rsi |-> rsi] :
              c \in CellCases, rsi \in RsiCells}

\* the frame compute_all_indicators hands on: the bars, the weekly level
\* columns of calculate_price_levels and the indicator cells
SignalFrame(in) ==
    LET e == compute_all_indicators(in.rows)
        n == Len(e.rows)
        c == SignalCells(in.cells, in.rsi)
    IN  [rows |-> e.rows,
         columns |-> {"Date", "Open", "High", "Low", "Close", "prev_week_high",
                      "prev_week_low"} \cup c.columns,
         prev_week_high |-> e.prev_week_high,
         prev_week_low |-> prev_week_low(e.rows),
         last |-> [Close |-> e.rows[n].Close, Open |-> e.rows[n].Open] @@ c.last,
         prev |-> [Close |-> e.rows[n - 1].Close] @@ c.prev]

signalFrame == <<cfgVars, dlVars, envVars, runVars, scoreVars, jsonVars, rankVars>>

\* STEP 3 for one instrument
SignalIndicators ==
    /\ sgPc = "cleaned"
    /\ sg_frame' = Some(SignalFrame(sg_input.val))
    /\ sgPc' = "enriched"
    /\ UNCHANGED <<sg_input, signals, signal_levels, key_levels, signalFrame>>

\* STEP 6 for one instrument
GenerateSignals ==
    /\ sgPc = "enriched"
    /\ signals' = generate_signals(sg_frame.val)
    /\ signal_levels' = IF Len(sg_frame.val.rows) >= 5 /\ "High" \in sg_frame.val.columns
                        THEN Some(weekly_levels(sg_frame.val)) ELSE None
    /\ sgPc' = "signalled"
    /\ UNCHANGED <<sg_input, sg_frame, key_levels, signalFrame>>

\* STEP 7 for one instrument
ConsolidateLevels ==
    /\ sgPc = "signalled"
    /\ key_levels' = IF sg_frame.val.rows = <<>> THEN None
                     ELSE Some(key_levels_of(sg_frame.val))
    /\ sgPc' = "consolidated"
    /\ UNCHANGED <<sg_input, sg_frame, signals, signal_levels, signalFrame>>

InitSignals ==
    /\ tickers = <<SPY>>
    /\ api_key = TRUE
    /\ max_retries = 1
    /\ batch_size = 1
    /\ DlIdle
    /\ EnvIdle
    /\ RunIdle
    /\ ScoreIdle
    /\ JsonIdle
    /\ RankIdle
    /\ sgPc = "cleaned"
    /\ \E in \in SignalInputs : sg_input = Some(in)
    /\ sg_frame = None
    /\ signals = <<>>
    /\ signal_levels = None
    /\ key_levels = None

NextSignals == SignalIndicators \/ GenerateSignals \/ ConsolidateLevels

SpecSignals == InitSignals /\ [][NextSignals]_vars


\* generate_signals has returned for a frame it accepts
Signalled == sgPc \in {"signalled", "consolidated"} /\ Len(sg_frame.val.rows) >= 5

Emitted(name) == \E k \in 1..Len(signals) : signals[k].name = name

LastBar == sg_frame.val.rows[Len(sg_frame.val.rows)]

PrevBar == sg_frame.val.rows[Len(sg_frame.val.rows) - 1]

PriceLevels == {"weekly high", "weekly low", "previous day high", "previous day low"}

HighLevels == {"weekly high", "previous day high"}

LevelValue(level) ==
    CASE level = "weekly high" -> weekly_levels(sg_frame.val).prev_week_high
      [] level = "weekly low" -> weekly_levels(sg_frame.val).prev_week_low
      [] level = "previous day high" -> PrevBar.High
      [] level = "previous day low" -> PrevBar.Low

BreakingName(level) ==
    CASE level = "weekly high" -> "Breaking above weekly high"
      [] level = "weekly low" -> "Breaking below weekly low"
      [] level = "previous day high" -> "Breaking above previous day high"
      [] level = "previous day low" -> "Breaking below previous day low"

TestingName(level) ==
    CASE level = "weekly high" -> "Testing weekly high"
      [] level = "weekly low" -> "Testing weekly low"
      [] level = "previous day high" -> "Testing previous day high"
      [] level = "previous day low" -> "Testing previous day low"

Broke(level) ==
    IF level \in HighLevels THEN LastBar.Close > LevelValue(level)
    ELSE LastBar.Close < LevelValue(level)

Reached(level) ==
    IF level \in HighLevels THEN LastBar.High >= LevelValue(level)
    ELSE LastBar.Low <= LevelValue(level)

\* C26: for each of the four price levels generate_signals emits the
\* 'Breaking' signal when the last close crosses the level, otherwise the
\* 'Testing' signal when the last high or low reaches it, and never both
C26_LevelSignals ==
    Signalled =>
        \A level \in PriceLevels :
            /\ Emitted(BreakingName(level)) <=> Broke(level)
            /\ Emitted(TestingName(level)) <=> (~Broke(level) /\ Reached(level))

\* what holds of the code: the two weekly 'Breaking' signals, and no other
\* price-level signal
WeeklyBreakoutsOnly ==
    Signalled =>
        /\ \A level \in {"weekly high", "weekly low"} :
               Emitted(BreakingName(level)) <=> Broke(level)
        /\ \A level \in PriceLevels : ~Emitted(TestingName(level))
        /\ \A level \in {"previous day high", "previous day low"} :
               ~Emitted(BreakingName(level))

RsiNames == {"RSI Extremely Overbought", "RSI Overbought", "RSI Extremely Oversold",
             "RSI Oversold"}

RsiSignals == SelectSeq(signals, LAMBDA sig : sig.name \in RsiNames)

\* C27: at most one RSI signal, the most extreme tier that applies:
\* Extremely Overbought from 80, Overbought from 70, Extremely Oversold up to
\* 20, Oversold up to 30, none between 30 and 70 or for a NaN RSI
C27_RsiTier ==
    Signalled =>
        LET rsi == sg_frame.val.last.RSI
        IN  /\ Len(RsiSignals) <= 1
            /\ Emitted("RSI Extremely Overbought") <=> (~IsNaN(rsi) /\ rsi >= 8000)
            /\ Emitted("RSI Overbought") <=> (~IsNaN(rsi) /\ rsi >= 7000 /\ rsi < 8000)
            /\ Emitted("RSI Extremely Oversold") <=> (~IsNaN(rsi) /\ rsi <= 2000)
            /\ Emitted("RSI Oversold") <=> (~IsNaN(rsi) /\ rsi <= 3000 /\ rsi > 2000)

C27_Witness ==
    /\ Signalled
    /\ sg_frame.val.last.RSI = 8500
    /\ Len(RsiSignals) = 1
    /\ RsiSignals[1].name = "RSI Extremely Overbought"

\* a cell of the last or previous row is NaN
AnyNaN(cells) == \E x \in cells : IsNaN(x)

\* C28: generate_signals returns its list whatever cells are NaN: a rule with
\* a NaN operand emits nothing, and every rule whose operands are numbers and
\* whose condition holds emits its signal, whichever other rule met a NaN
C28_NaNSuppressed ==
    Signalled =>
        LET last == sg_frame.val.last
            prev == sg_frame.val.prev
            cols == sg_frame.val.columns
            macd == {last.MACD, last.MACD_signal, prev.MACD, prev.MACD_signal}
            sma == {last.SMA_50, last.SMA_200, prev.SMA_50, prev.SMA_200}
        IN  /\ IsNaN(last.RSI) => RsiSignals = <<>>
            /\ (~IsNaN(last.RSI) /\ (last.RSI >= 7000 \/ last.RSI <= 3000))
                   => Len(RsiSignals) = 1
            /\ AnyNaN({last.BB_upper, last.BB_lower})
                   => ~Emitted("BB Upper Breakout") /\ ~Emitted("BB Lower Breakout")
            /\ (~AnyNaN({last.BB_upper, last.BB_lower}) /\ last.Close > last.BB_upper)
                   => Emitted("BB Upper Breakout")
            /\ ("Volume_ratio" \notin cols \/ IsNaN(last.Volume_ratio))
                   => ~Emitted("Volume Surge")
            /\ ("Volume_ratio" \in cols /\ ~IsNaN(last.Volume_ratio)
                    /\ last.Volume_ratio > 200) => Emitted("Volume Surge")
            /\ LastBar.Open * 100 > PrevBar.Close * 102 => Emitted("Gap Up")
            /\ LastBar.Open * 100 < PrevBar.Close * 98 => Emitted("Gap Down")
            /\ AnyNaN(macd)
                   => ~Emitted("MACD Bullish Crossover") /\ ~Emitted("MACD Bearish Crossover")
            /\ (~AnyNaN(macd) /\ prev.MACD < prev.MACD_signal /\ last.MACD > last.MACD_signal)
                   => Emitted("MACD Bullish Crossover")
            /\ AnyNaN(sma) => ~Emitted("Golden Cross (SMA50 > SMA200)")
                                  /\ ~Emitted("Death Cross (SMA50 < SMA200)")
            /\ (~AnyNaN(sma) /\ prev.SMA_50 < prev.SMA_200 /\ last.SMA_50 > last.SMA_200)
                   => Emitted("Golden Cross (SMA50 > SMA200)")
            /\ IsNaN(last.ADX) => ~Emitted("Strong Trend")
            /\ (~IsNaN(last.ADX) /\ last.ADX > 2500) => Emitted("Strong Trend")

C28_Witness ==
    /\ Signalled
    /\ IsNaN(sg_frame.val.last.Volume_ratio)
    /\ ~Emitted("Volume Surge")
    /\ Emitted("BB Upper Breakout")
    /\ Emitted("MACD Bullish Crossover")
    /\ Emitted("Golden Cross (SMA50 > SMA200)")
    /\ Emitted("Strong Trend")

\* C30: for a frame of at least five rows the weekly high and low that
\* generate_signals and consolidate_instrument_data recompute equal the
\* prev_week_high and prev_week_low columns at the last row
C30_WeeklyLevelsAgree ==
    (sgPc = "consolidated" /\ Len(sg_frame.val.rows) >= 5) =>
        LET f == sg_frame.val
            n == Len(f.rows)
        IN  /\ signal_levels.some
            /\ signal_levels.val.prev_week_high = f.prev_week_high[n]
            /\ signal_levels.val.prev_week_low = f.prev_week_low[n]
            /\ key_levels.some
            /\ "prev_week_high" \in DOMAIN key_levels.val
            /\ key_levels.val.prev_week_high = f.prev_week_high[n]
            /\ key_levels.val.prev_week_low = f.prev_week_low[n]

\* what holds of the code: the levels agree from six rows on
WeeklyLevelsAgreeFromSix ==
    (sgPc = "consolidated" /\ Len(sg_frame.val.rows) >= 6) =>
        LET f == sg_frame.val
            n == Len(f.rows)
        IN  /\ signal_levels.some
            /\ signal_levels.val.prev_week_high = f.prev_week_high[n]
            /\ signal_levels.val.prev_week_low = f.prev_week_low[n]
            /\ key_levels.some
            /\ "prev_week_high" \in DOMAIN key_levels.val
            /\ key_levels.val.prev_week_high = f.prev_week_high[n]
            /\ key_levels.val.prev_week_low = f.prev_week_low[n]

====
